---- MODULE Spec2Model ----
(***************************************************************************)
(* State-machine model of PicGen's request orchestration and caching core: *)
(* ImageTool (src/core/image_tool.py) and ImageCache                       *)
(* (src/utils/image_cache.py).  Every call of generate_image / edit_image  *)
(* runs in a worker frame th[w]; the sequential specification Spec lets    *)
(* one frame run at a time (one caller thread per operation).              *)
(***************************************************************************)
EXTENDS Integers, Sequences, FiniteSets, TLC

VARIABLES
    config,   \* ConfigManager.config: the keys the core reads
    cacheOn,  \* ImageTool.cache is not None (enable_cache read once in __init__)
    gofileOk, \* gofile_token and gofile_folder are both set (read once in __init__)
    stats,    \* ImageTool.stats
    db,       \* table image_cache: prompt_hash -> [filepath, last_accessed]
    files,    \* paths that exist on disk
    clock,    \* wall clock in UTC, in whole seconds (the resolution of CURRENT_TIMESTAMP)
    utcOffset, \* seconds the machine's local time is ahead of UTC
    calls,    \* number of generate_image calls started so far
    edits,    \* number of edit_image calls started so far
    th,       \* per worker: the frame of the call it is running
    hist      \* history: per (prompt, kwargs) the path a succeeded generate_image returned

vars == <<config, utcOffset, cacheOn, gofileOk, stats, db, files, clock, calls, edits, th, hist>>

---------------------------------------------------------------------------
(* Bounds of the model *)

NumWorkers == 2
MaxCalls == 2
MaxEdits == 1
MaxTicks == 1
MaxRetries == 3
BatchSize == 3
MaxCacheOps == 3
MaxCacheTicks == 2
MaxSweepOps == 3
MaxDiagCalls == 2
MaxDiagRequests == 3
NegativeRetries == 1   \* how many negative values of max_retries a session is configured with

Workers == 1..NumWorkers

---------------------------------------------------------------------------
(* Texts are sequences of characters *)

NTilde == "n~"

PromptEn == <<"F", "o", "x", "!">>
PromptEs == <<NTilde, "u">>
Prompts == {PromptEn, PromptEs}

\* what the translation service may answer for a text it was sent
TranslationReplies == {<<"f", "o", "x">>}

\* ord(c) < 128
IsAscii(c) == c # NTilde

\* str.lower() on the alphabet of the model
Lower(c) == IF c = "F" THEN "f" ELSE c

\* the class [\w\s-] of the regular expression in _generate_filename
IsWordSpaceHyphen(c) == c \notin {"!", "?", ".", ","}

IsSpace(c) == c = " "

Min(a, b) == IF a < b THEN a ELSE b

Prefix(s, n) == SubSeq(s, 1, Min(n, Len(s)))

\* re.sub(r'[^\w\s-]', '', s)
ReSubNonWord(s) == SelectSeq(s, IsWordSpaceHyphen)

RECURSIVE LStrip(_)
LStrip(s) == IF s # <<>> /\ IsSpace(Head(s)) THEN LStrip(Tail(s)) ELSE s

RECURSIVE RStrip(_)
RStrip(s) ==
    IF s # <<>> /\ IsSpace(s[Len(s)]) THEN RStrip(SubSeq(s, 1, Len(s) - 1)) ELSE s

Strip(s) == RStrip(LStrip(s))

StrLower(s) == [i \in 1..Len(s) |-> Lower(s[i])]

\* s.replace(' ', '_')
ReplaceSpaces(s) == [i \in 1..Len(s) |-> IF s[i] = " " THEN "_" ELSE s[i]]

AllAscii(s) == \A i \in 1..Len(s) : IsAscii(s[i])

---------------------------------------------------------------------------
(* Program constants *)

TranslateLimit == 490
SlugLimit == 50
DefaultWidth == 1024
DefaultHeight == 768
DefaultModel == "flux"
DefaultEditModel == "kontext"
MaxAgeDays == 30
DaySeconds == 86400

\* seeds: the override the web interface passes by default, and what
\* random.randint may draw
SeedOverride == 0
RandomSeeds == {7}

NoKwargs == <<>>
KwargsChoices == {NoKwargs, [seed |-> SeedOverride]}

\* kwargs.get(key, default)
KwGet(kw, key, default) == IF key \in DOMAIN kw THEN kw[key] ELSE default

---------------------------------------------------------------------------
(* Paths: <<directory, file stem, timestamp>> *)

NoPath == <<"None", <<>>, 0>>
OutputDir == "generated_images"
InputImage == <<"input", <<"s", "r", "c">>, 0>>

---------------------------------------------------------------------------
(* ImageCache._get_hash *)

\* the rank of a parameter name in sorted (alphabetical) key order
KeyRank(k) ==
    CASE k = "height" -> 1
      [] k = "model" -> 2
      [] k = "nologo" -> 3
      [] k = "seed" -> 4
      [] k = "width" -> 5

\* faulty variant of the serialisation: the pairs stay in insertion order
InsertionOrder(parameters) == parameters

\* json.dumps(parameters, sort_keys=True): the pairs in key order
SortKeys(parameters) ==
    LET n == Len(parameters)
        pos(i) == Cardinality({j \in 1..n : KeyRank(parameters[j][1]) <= KeyRank(parameters[i][1])})
    IN  [r \in 1..n |-> parameters[CHOOSE i \in 1..n : pos(i) = r]]

\* the digest of f"{prompt}_{json}"; MD5 is taken to be injective on the model's inputs
_get_hash(prompt, parameters) == <<prompt, SortKeys(parameters)>>

---------------------------------------------------------------------------
(* ImageCache.get / ImageCache.store, on the table db at time now *)

HasRow(h) == h \in DOMAIN db

\* faulty variant of get: it never finds an entry
CacheGetNever(prompt, parameters) == NoPath

\* faulty variant of get: the stored path is returned without looking for its file
CacheGetWithoutFileCheck(prompt, parameters) ==
    LET h == _get_hash(prompt, parameters)
    IN  IF HasRow(h) THEN db[h].filepath ELSE NoPath

\* get: the stored path if the row exists and its file exists, else None
CacheGet(prompt, parameters) ==
    LET h == _get_hash(prompt, parameters)
    IN  IF HasRow(h) /\ db[h].filepath \in files THEN db[h].filepath ELSE NoPath

\* faulty variant of get: last_accessed is updated whenever the row exists
DbAfterGetTouch(prompt, parameters, now) ==
    LET h == _get_hash(prompt, parameters)
    IN  IF HasRow(h) THEN [db EXCEPT ![h].last_accessed = now] ELSE db

\* get: the UPDATE of last_accessed on a hit
DbAfterGet(prompt, parameters, now) ==
    LET h == _get_hash(prompt, parameters)
    IN  IF CacheGet(prompt, parameters) # NoPath
        THEN [db EXCEPT ![h].last_accessed = now]
        ELSE db

\* faulty variant of store: the row is not written
DbAfterStoreNothing(prompt, parameters, filepath, now) == db

\* faulty variant of store: INSERT OR IGNORE, an existing row is kept
DbAfterInsertOrIgnore(prompt, parameters, filepath, now) ==
    LET h == _get_hash(prompt, parameters)
    IN  IF HasRow(h) THEN db
        ELSE [k \in DOMAIN db \cup {h} |->
                IF k = h THEN [filepath |-> filepath, last_accessed |-> now] ELSE db[k]]

\* store: INSERT OR REPLACE of the row keyed by the digest
DbAfterStore(prompt, parameters, filepath, now) ==
    LET h == _get_hash(prompt, parameters)
    IN  [k \in DOMAIN db \cup {h} |->
            IF k = h THEN [filepath |-> filepath, last_accessed |-> now] ELSE db[k]]

---------------------------------------------------------------------------
(* ImageTool._translate_prompt *)

\* text[:490]
Truncate(text) == Prefix(text, TranslateLimit)

\* whether the translation service is called for the text
NeedsTranslation(text) == ~AllAscii(Truncate(text))

\* the values _translate_prompt may return: a reply of the service, or, when
\* the service is not called or fails, the truncated text
TranslateResults(text) ==
    IF NeedsTranslation(text)
    THEN TranslationReplies \cup {Truncate(text)}
    ELSE {Truncate(text)}

---------------------------------------------------------------------------
(* ImageTool._generate_filename *)

clean_prompt(prompt) ==
    Prefix(ReplaceSpaces(Strip(ReSubNonWord(StrLower(prompt)))), SlugLimit)

_generate_filename(prompt, now) == <<OutputDir, clean_prompt(prompt), now>>

---------------------------------------------------------------------------
(* ImageTool._make_request: one attempt and the loop's decisions *)

Statuses == {200, 304, 404, 503}
ContentTypes == {"image/png", "application/octet-stream", "text/html"}

\* a transport failure (timeout, reset, DNS): requests raises RequestException
TransportFailure == [status |-> 0, content_type |-> ""]
Responses == [status : Statuses, content_type : ContentTypes] \cup {TransportFailure}

\* 'image' in content_type / 'octet-stream' in content_type
ContainsImage(ct) == ct \in {"image/png"}
ContainsOctetStream(ct) == ct \in {"application/octet-stream"}

\* response.raise_for_status() raises HTTPError
RaisesHTTPError(resp) == 400 <= resp.status /\ resp.status < 600

\* faulty variant of the content-type check: every content type passes
AnyContentType(resp) == TRUE

\* the content-type check of a response that passed raise_for_status
ValidContentType(resp) ==
    ContainsImage(resp.content_type) \/ ContainsOctetStream(resp.content_type)

\* faulty variant of the break: a 4xx response is retried like a 5xx
BreaksLoopNever(resp) == FALSE

\* except HTTPError: if e.response.status_code < 500: break
BreaksLoop(resp) == resp.status < 500

\* faulty variant of the iteration: its except clauses take the ValueError of
\* the content-type check too, and the loop goes on
AttemptOutcomeRetryingValueError(resp) ==
    IF resp = TransportFailure THEN "retry"
    ELSE IF RaisesHTTPError(resp) THEN (IF BreaksLoop(resp) THEN "break" ELSE "retry")
    ELSE IF ~ValidContentType(resp) THEN "retry"
    ELSE "return"

\* what one iteration of the loop does with the outcome of requests.get
AttemptOutcome(resp) ==
    IF resp = TransportFailure THEN "retry"
    ELSE IF RaisesHTTPError(resp) THEN (IF BreaksLoop(resp) THEN "break" ELSE "retry")
    ELSE IF ~ValidContentType(resp) THEN "ValueError"
    ELSE "return"

\* faulty variant of the sleep guard: it also sleeps after the last attempt
SleepAfterEveryAttempt(attempt, max_retries) == attempt < max_retries

\* if attempt < max_retries - 1: time.sleep(...)
ShouldSleep(attempt, max_retries) == attempt < max_retries - 1

\* 2 ** attempt
Backoff(attempt) == 2 ^ attempt

\* faulty variant of the loop bound: one iteration more
InRangeInclusive(attempt, max_retries) == attempt <= max_retries

\* faulty variant of the loop bound: the first attempt is made whatever the budget
InRangeAtLeastOnce(attempt, max_retries) == attempt = 0 \/ attempt < max_retries

\* for attempt in range(max_retries): whether iteration `attempt` runs
InRange(attempt, max_retries) == attempt < max_retries

---------------------------------------------------------------------------
(* ImageTool.edit_image: the attempt list *)

\* model_params, in the insertion order of the dict
ModelParamsOrder == <<"kontext", "flux", "flux-kontext">>

model_params(m) ==
    CASE m = "kontext" -> [param |-> "image", prompt_prefix |-> <<>>]
      [] m = "flux" -> [param |-> "reference", prompt_prefix |-> <<"b", "a", "s", "e", "d", " ">>]
      [] m = "flux-kontext" -> [param |-> "image", prompt_prefix |-> <<>>]

KnownModels == {ModelParamsOrder[i] : i \in 1..Len(ModelParamsOrder)}

RECURSIVE SelectSeq2(_, _)
SelectSeq2(s, drop) ==
    IF s = <<>> THEN <<>>
    ELSE IF Head(s) = drop THEN SelectSeq2(Tail(s), drop)
    ELSE <<Head(s)>> \o SelectSeq2(Tail(s), drop)

\* faulty variant of methods_to_try: the preferred model is not filtered out of the rest
PreferredThenAll(preferred_model) == <<preferred_model>> \o ModelParamsOrder

\* [preferred_model] + [m for m in model_params if m != preferred_model]
methods_to_try(preferred_model) ==
    <<preferred_model>> \o SelectSeq2(ModelParamsOrder, preferred_model)

RECURSIVE KnownOnly(_)
KnownOnly(s) ==
    IF s = <<>> THEN <<>>
    ELSE IF Head(s) \in KnownModels THEN <<Head(s)>> \o KnownOnly(Tail(s))
    ELSE KnownOnly(Tail(s))

\* methods: the entries of methods_to_try that are in model_params
BuildMethods(preferred_model) ==
    LET names == KnownOnly(methods_to_try(preferred_model))
    IN  [i \in 1..Len(names) |->
            [model |-> names[i],
             param |-> model_params(names[i]).param,
             prompt_prefix |-> model_params(names[i]).prompt_prefix]]

\* the characters of a model name, as they enter the file name
ModelChars(m) ==
    CASE m = "kontext" -> <<"k", "o", "n", "t", "e", "x", "t">>
      [] m = "flux" -> <<"f", "l", "u", "x">>
      [] m = "flux-kontext" -> <<"f", "l", "u", "x", "-", "k", "o", "n", "t", "e", "x", "t">>

\* faulty variant of the file name prompt of an edit: the model name is left out
UntaggedFilenamePrompt(m, translated) == <<"e", "d", "i", "t", "_">> \o translated

\* f"edit_{method['model']}_{translated_prompt}"
EditTag(m) == <<"e", "d", "i", "t", "_">> \o ModelChars(m) \o <<"_">>
EditFilenamePrompt(m, translated) == EditTag(m) \o translated

---------------------------------------------------------------------------
(* Configuration documents and the initial state *)

EditModelChoices == KnownModels \cup {"turbo"}

Configs == [max_retries : 0..MaxRetries, model_edicion : EditModelChoices]

ZeroStats == [images_generated |-> 0, cache_hits |-> 0, total_generation_time |-> 0, errors |-> 0]

NoLookup == [row |-> FALSE, filepath |-> NoPath, file_exists |-> FALSE]

\* the frame of a worker that runs no call
IdleFrame ==
    [op |-> "none", pc |-> "idle", prompt |-> <<>>, kwargs |-> NoKwargs,
     params |-> <<>>, image_path |-> NoPath, translated |-> <<>>,
     methods |-> <<>>, idx |-> 0, attempt |-> 0,
     reg |-> 0, start_time |-> 0, saved_path |-> NoPath, result |-> NoPath,
     exc |-> "none", raised |-> "none",
     \* observations of the call, for the properties
     log |-> <<>>,      \* the requests and sleeps of the _make_request call that runs or just ended
     mr_calls |-> 0,    \* calls of _make_request
     tr_calls |-> 0,    \* calls of _translate_prompt
     uploads |-> 0,     \* calls of _upload_to_gofile
     tried |-> <<>>,    \* edit_image: the models whose attempt was started, in order
     nfailed |-> 0,     \* edit_image: the attempts that ended in the except clause
     caught |-> <<>>,   \* edit_image: the exceptions its except clause took, in order
     saves |-> 0,       \* files written by _save_image
     stores |-> 0,      \* calls of cache.store
     lk |-> NoLookup,   \* generate_image: what the table and the disk held at the lookup
     src |-> "unchecked",  \* edit_image: whether the source file was on disk at the check
     upload |-> "none",    \* edit_image: how the upload ended
     pre_stats |-> ZeroStats, pre_db |-> <<>>,  \* stats and db when the call started
     pre_files |-> {},  \* cache calls: the files on disk when the call started
     days |-> 0,        \* clean_cache: its argument
     now |-> 0,         \* clean_cache: the reading of datetime.now()
     stuck |-> {},      \* clean_cache: the files os.remove failed on
     aged |-> {},       \* clean_cache: the rows the first SELECT returned
     deleted_count |-> 0,   \* clean_cache: its counter
     returned |-> <<>>, \* cache calls: the value returned, <<>> for None
     again |-> FALSE,   \* clean_cache: the call before it was a clean_cache too
     prev_now |-> 0, prev_days |-> 0,  \* ... that call's reading and argument,
     prev_stuck |-> {}, prev_deleted_count |-> 0,  \* ... its failed removals and its count
     todo |-> {},       \* clean_cache: the fetched rows its loop has yet to go through
     pend |-> {},       \* clean_cache: the rows deleted in its open transaction
     lock |-> FALSE,    \* clean_cache: its transaction holds the write lock of the database
     victims |-> {},    \* clean_cache: what each row it deleted held at the DELETE
     gone |-> FALSE,    \* get: the file of the returned path was not on disk at the return
     sent |-> <<>>,     \* _translate_prompt: the texts sent to the translation service
     tr_outcome |-> "none",  \* _translate_prompt: how it ended
     account_id |-> [t |-> "null"]]  \* run_diagnostics: the account id read from the getid reply

\* time zones: UTC, and an hour ahead of it
UtcOffsets == {0, DaySeconds \div 24}

HistKeys == Prompts \X (KwargsChoices \ {NoKwargs})

Init ==
    /\ config \in Configs
    /\ cacheOn \in BOOLEAN
    /\ gofileOk \in BOOLEAN
    /\ stats = ZeroStats
    /\ db = <<>>
    /\ files = {InputImage}
    /\ clock = 0
    /\ utcOffset \in UtcOffsets
    /\ calls = 0
    /\ edits = 0
    /\ th = [w \in Workers |-> IdleFrame]
    /\ hist = [k \in HistKeys |-> NoPath]

---------------------------------------------------------------------------
(* generate_image *)

\* the merged parameter set, in the insertion order of the dict literal
BuildParams(kwargs, random_seed) ==
    << <<"width", KwGet(kwargs, "width", DefaultWidth)>>,
       <<"height", KwGet(kwargs, "height", DefaultHeight)>>,
       <<"model", KwGet(kwargs, "model", DefaultModel)>>,
       <<"seed", KwGet(kwargs, "seed", random_seed)>>,
       <<"nologo", FALSE>> >>

\* the frame on entry to _make_request
EnterMakeRequest(f) ==
    [f EXCEPT !.pc = "mr_req", !.attempt = 0, !.log = <<>>, !.mr_calls = @ + 1]

\* generate_image is entered by worker w: start_time and params are set
StartGenerate(w, prompt, kwargs, random_seed) ==
    /\ th[w].pc = "idle"
    /\ calls' = calls + 1
    /\ th' = [th EXCEPT ![w] =
                [IdleFrame EXCEPT !.op = "generate", !.pc = "g_get",
                                  !.prompt = prompt, !.kwargs = kwargs,
                                  !.params = BuildParams(kwargs, random_seed),
                                  !.start_time = clock,
                                  !.pre_stats = stats, !.pre_db = db]]
    /\ UNCHANGED <<config, utcOffset, cacheOn, gofileOk, stats, db, files, clock, edits, hist>>

\* a call of generate_image by the interactive interfaces
GenStart(w, prompt, kwargs, random_seed) ==
    /\ calls < MaxCalls
    /\ StartGenerate(w, prompt, kwargs, random_seed)

\* if self.cache and (cached_path := self.cache.get(prompt, params))
GenLookup(w) ==
    /\ th[w].pc = "g_get"
    /\ LET h == _get_hash(th[w].prompt, th[w].params)
           f == [th[w] EXCEPT !.lk = IF cacheOn /\ h \in DOMAIN db
                                     THEN [row |-> TRUE, filepath |-> db[h].filepath,
                                           file_exists |-> db[h].filepath \in files]
                                     ELSE NoLookup]
           hit == IF cacheOn THEN CacheGet(f.prompt, f.params) ELSE NoPath
       IN  /\ db' = IF cacheOn THEN DbAfterGet(f.prompt, f.params, clock) ELSE db
           /\ th' = [th EXCEPT ![w] =
                       IF hit # NoPath
                       THEN [f EXCEPT !.pc = "g_hit", !.saved_path = hit]
                       ELSE [f EXCEPT !.pc = "g_translate"]]
    /\ UNCHANGED <<config, utcOffset, cacheOn, gofileOk, stats, files, clock, calls, edits, hist>>

\* self.stats['cache_hits'] += 1: the read of the counter
GenHitRead(w) ==
    /\ th[w].pc = "g_hit"
    /\ th' = [th EXCEPT ![w] = [@ EXCEPT !.pc = "g_hit_w", !.reg = stats.cache_hits]]
    /\ UNCHANGED <<config, utcOffset, cacheOn, gofileOk, stats, db, files, clock, calls, edits, hist>>

\* ... the write of the counter, and return cached_path
GenHitWrite(w) ==
    /\ th[w].pc = "g_hit_w"
    /\ stats' = [stats EXCEPT !.cache_hits = th[w].reg + 1]
    /\ th' = [th EXCEPT ![w] = [@ EXCEPT !.pc = "done", !.result = th[w].saved_path]]
    /\ UNCHANGED <<config, utcOffset, cacheOn, gofileOk, db, files, clock, calls, edits, hist>>

\* translated_prompt = self._translate_prompt(prompt); then the call of _make_request
GenTranslate(w) ==
    /\ th[w].pc = "g_translate"
    /\ \E t \in TranslateResults(th[w].prompt) :
          th' = [th EXCEPT ![w] =
                    EnterMakeRequest([@ EXCEPT !.translated = t, !.tr_calls = @ + 1])]
    /\ UNCHANGED <<config, utcOffset, cacheOn, gofileOk, stats, db, files, clock, calls, edits, hist>>

---------------------------------------------------------------------------
(* _make_request *)

\* the class of what requests.get produced, as the log records it
RespClass(resp) ==
    IF resp = TransportFailure \/ resp.status >= 500 THEN "5xx-or-transport"
    ELSE IF resp.status >= 400 THEN "4xx"
    ELSE IF resp.status >= 300 THEN "3xx"
    ELSE IF resp.content_type \in {"image/png", "application/octet-stream"} THEN "2xx-image"
    ELSE "2xx-not-image"

ReqEvent(resp) == <<"request", RespClass(resp)>>
SleepEvent(d) == <<"sleep", d>>

\* Python's exception classes: IOError is OSError, ConnectionError is a subclass of it
IsSubclass(e, c) == e = c \/ (e = "ConnectionError" /\ c = "IOError")

\* faulty variant of the except clause of generate_image: ConnectionError only
ExceptConnectionErrorOnly == {"ConnectionError"}

\* except (ConnectionError, ValueError, IOError) in generate_image and in edit_image
GenExcept == {"ConnectionError", "ValueError", "IOError"}
EditExcept == {"ConnectionError", "ValueError", "IOError"}

Catches(clause, e) == \E c \in clause : IsSubclass(e, c)

\* an exception leaves _make_request or _save_image: the except clause of the
\* caller takes it, or it leaves the call
Raise(f, e) ==
    IF f.op = "generate"
    THEN IF Catches(GenExcept, e)
         THEN [f EXCEPT !.pc = "g_err", !.exc = e]
         ELSE [f EXCEPT !.pc = "done", !.raised = e]
    ELSE IF Catches(EditExcept, e)
         THEN [f EXCEPT !.pc = "e_except", !.exc = e]
         ELSE [f EXCEPT !.pc = "done", !.raised = e]

\* the frame of _make_request is gone once its caller goes on
Unwind(f) == [f EXCEPT !.attempt = 0, !.log = <<>>]

\* _make_request returns the response to its caller
ReturnResponse(f) ==
    IF f.op = "generate" THEN [f EXCEPT !.pc = "g_save"] ELSE [f EXCEPT !.pc = "e_save"]

\* the frame after one iteration's requests.get answered resp
AfterAttempt(f, resp) ==
    LET g == [f EXCEPT !.log = Append(@, ReqEvent(resp))]
        o == AttemptOutcome(resp)
    IN  CASE o = "return" -> ReturnResponse(g)
          [] o = "ValueError" -> Raise(g, "ValueError")
          [] o = "break" -> Raise(g, "ConnectionError")
          [] o = "retry" -> [g EXCEPT !.pc = "mr_backoff"]

\* the head of the for loop: one more iteration, or the raise after the loop
MrRequest(w) ==
    /\ th[w].pc = "mr_req"
    /\ IF InRange(th[w].attempt, config.max_retries)
       THEN \E resp \in Responses : th' = [th EXCEPT ![w] = AfterAttempt(@, resp)]
       ELSE th' = [th EXCEPT ![w] = Raise(@, "ConnectionError")]
    /\ UNCHANGED <<config, utcOffset, cacheOn, gofileOk, stats, db, files, clock, calls, edits, hist>>

\* the end of a failed iteration: the backoff sleep, then the next iteration
MrBackoff(w) ==
    /\ th[w].pc = "mr_backoff"
    /\ th' = [th EXCEPT ![w] =
                [@ EXCEPT !.pc = "mr_req",
                          !.attempt = @ + 1,
                          !.log = IF ShouldSleep(th[w].attempt, config.max_retries)
                                  THEN Append(@, SleepEvent(Backoff(th[w].attempt)))
                                  ELSE @]]
    /\ UNCHANGED <<config, utcOffset, cacheOn, gofileOk, stats, db, files, clock, calls, edits, hist>>

---------------------------------------------------------------------------
(* generate_image, after the request *)

\* _save_image: the file is written, or open/write fails with IOError (a failed
\* write may leave the file behind)
GenSave(w) ==
    /\ th[w].pc = "g_save"
    /\ LET f == Unwind(th[w])
           path == _generate_filename(f.translated, clock)
       IN  \/ /\ files' = files \cup {path}
              /\ th' = [th EXCEPT ![w] =
                          [f EXCEPT !.pc = "g_store", !.saved_path = path, !.saves = @ + 1]]
           \/ /\ files' \in {files, files \cup {path}}
              /\ th' = [th EXCEPT ![w] = Raise(f, "IOError")]
    /\ UNCHANGED <<config, utcOffset, cacheOn, gofileOk, stats, db, clock, calls, edits, hist>>

\* faulty variant of the store of generate_image: the key is built from the
\* translated prompt
GenStoreUnderTranslated(w) ==
    /\ th[w].pc = "g_store"
    /\ LET f == th[w]
       IN  /\ db' = IF cacheOn THEN DbAfterStore(f.translated, f.params, f.saved_path, clock) ELSE db
           /\ th' = [th EXCEPT ![w] =
                       [f EXCEPT !.pc = "g_cnt", !.stores = IF cacheOn THEN @ + 1 ELSE @]]
    /\ UNCHANGED <<config, utcOffset, cacheOn, gofileOk, stats, files, clock, calls, edits, hist>>

\* if self.cache: self.cache.store(prompt, params, saved_path)
GenStore(w) ==
    /\ th[w].pc = "g_store"
    /\ LET f == th[w]
       IN  /\ db' = IF cacheOn THEN DbAfterStore(f.prompt, f.params, f.saved_path, clock) ELSE db
           /\ th' = [th EXCEPT ![w] =
                       [f EXCEPT !.pc = "g_cnt", !.stores = IF cacheOn THEN @ + 1 ELSE @]]
    /\ UNCHANGED <<config, utcOffset, cacheOn, gofileOk, stats, files, clock, calls, edits, hist>>

\* self.stats['images_generated'] += 1: the read
GenCountRead(w) ==
    /\ th[w].pc = "g_cnt"
    /\ th' = [th EXCEPT ![w] = [@ EXCEPT !.pc = "g_cnt_w", !.reg = stats.images_generated]]
    /\ UNCHANGED <<config, utcOffset, cacheOn, gofileOk, stats, db, files, clock, calls, edits, hist>>

\* ... the write, total_generation_time += duration, and return saved_path
GenCountWrite(w) ==
    /\ th[w].pc = "g_cnt_w"
    /\ stats' = [stats EXCEPT !.images_generated = th[w].reg + 1,
                              !.total_generation_time = @ + (clock - th[w].start_time)]
    /\ th' = [th EXCEPT ![w] = [@ EXCEPT !.pc = "done", !.result = th[w].saved_path]]
    /\ UNCHANGED <<config, utcOffset, cacheOn, gofileOk, db, files, clock, calls, edits, hist>>

\* except (ConnectionError, ValueError, IOError): self.stats['errors'] += 1: the read
GenErrRead(w) ==
    /\ th[w].pc = "g_err"
    /\ th' = [th EXCEPT ![w] = [Unwind(@) EXCEPT !.pc = "g_err_w", !.reg = stats.errors]]
    /\ UNCHANGED <<config, utcOffset, cacheOn, gofileOk, stats, db, files, clock, calls, edits, hist>>

\* ... the write, and return None
GenErrWrite(w) ==
    /\ th[w].pc = "g_err_w"
    /\ stats' = [stats EXCEPT !.errors = th[w].reg + 1]
    /\ th' = [th EXCEPT ![w] = [@ EXCEPT !.pc = "done", !.result = NoPath]]
    /\ UNCHANGED <<config, utcOffset, cacheOn, gofileOk, db, files, clock, calls, edits, hist>>

---------------------------------------------------------------------------
(* edit_image *)

EditStart(w, prompt, image_path) ==
    /\ th[w].pc = "idle"
    /\ edits < MaxEdits
    /\ edits' = edits + 1
    /\ th' = [th EXCEPT ![w] =
                [IdleFrame EXCEPT !.op = "edit", !.pc = "e_exists",
                                  !.prompt = prompt, !.image_path = image_path,
                                  !.start_time = clock,
                                  !.pre_stats = stats, !.pre_db = db]]
    /\ UNCHANGED <<config, utcOffset, cacheOn, gofileOk, stats, db, files, clock, calls, hist>>

\* faulty variant of the existence check: the source is taken to exist
SourceAssumedPresent(image_path) == TRUE

\* Path(image_path).exists()
SourceExists(image_path) == image_path \in files

\* if not Path(image_path).exists(): return None
EditExists(w) ==
    /\ th[w].pc = "e_exists"
    /\ LET f == [th[w] EXCEPT !.src = IF th[w].image_path \in files
                                      THEN "exists" ELSE "missing"]
       IN  th' = [th EXCEPT ![w] =
                    IF SourceExists(f.image_path)
                    THEN [f EXCEPT !.pc = "e_upload"]
                    ELSE [f EXCEPT !.pc = "done", !.result = NoPath]]
    /\ UNCHANGED <<config, utcOffset, cacheOn, gofileOk, stats, db, files, clock, calls, edits, hist>>

\* whether _upload_to_gofile can return a link: credentials set and the file opens
UploadCanSucceed(image_path) == gofileOk /\ image_path \in files

\* if not public_url
UploadFailed(public_url) == public_url = "None"

\* public_url = self._upload_to_gofile(image_path); if not public_url: return None
EditUpload(w) ==
    /\ th[w].pc = "e_upload"
    /\ \E public_url \in {"None"} \cup
                          (IF UploadCanSucceed(th[w].image_path) THEN {"link"} ELSE {}) :
          LET f == [th[w] EXCEPT !.uploads = @ + 1,
                                 !.upload = IF public_url = "None" THEN "failed" ELSE "ok"]
          IN  th' = [th EXCEPT ![w] =
                        IF UploadFailed(public_url)
                        THEN [f EXCEPT !.pc = "done", !.result = NoPath]
                        ELSE [f EXCEPT !.pc = "e_translate"]]
    /\ UNCHANGED <<config, utcOffset, cacheOn, gofileOk, stats, db, files, clock, calls, edits, hist>>

\* translated_prompt = self._translate_prompt(prompt); then methods is built
EditTranslate(w) ==
    /\ th[w].pc = "e_translate"
    /\ \E t \in TranslateResults(th[w].prompt) :
          th' = [th EXCEPT ![w] =
                    [@ EXCEPT !.pc = "e_loop", !.translated = t, !.tr_calls = @ + 1,
                              !.methods = BuildMethods(config.model_edicion), !.idx = 1]]
    /\ UNCHANGED <<config, utcOffset, cacheOn, gofileOk, stats, db, files, clock, calls, edits, hist>>

\* faulty variant of the loop: it stops before the last method
LoopStopsOneShort(idx, methods) == idx < Len(methods)

\* for method in methods: whether the loop has a method at position idx
LoopHasNext(idx, methods) == idx <= Len(methods)

\* for method in methods: the next method's _make_request, or the end of the loop
EditLoop(w) ==
    /\ th[w].pc = "e_loop"
    /\ LET f == th[w]
       IN  th' = [th EXCEPT ![w] =
                    IF LoopHasNext(f.idx, f.methods)
                    THEN EnterMakeRequest([f EXCEPT !.tried = Append(@, f.methods[f.idx].model)])
                    ELSE [f EXCEPT !.pc = "e_fail"]]
    /\ UNCHANGED <<config, utcOffset, cacheOn, gofileOk, stats, db, files, clock, calls, edits, hist>>

\* faulty variant of the success path of edit_image: it stores the edited image
\* in the cache and counts it as generated, as generate_image does
EditSaveStoring(w) ==
    /\ th[w].pc = "e_save"
    /\ LET f == Unwind(th[w])
           m == f.methods[f.idx].model
           path == _generate_filename(EditFilenamePrompt(m, f.translated), clock)
       IN  /\ files' = files \cup {path}
           /\ db' = IF cacheOn THEN DbAfterStore(f.prompt, <<>>, path, clock) ELSE db
           /\ stats' = [stats EXCEPT !.images_generated = @ + 1]
           /\ th' = [th EXCEPT ![w] =
                       [f EXCEPT !.pc = "done", !.saved_path = path,
                                 !.result = path, !.saves = @ + 1]]
    /\ UNCHANGED <<config, utcOffset, cacheOn, gofileOk, clock, calls, edits, hist>>

\* filename = self._generate_filename(f"edit_{model}_{translated}"); _save_image; return
EditSave(w) ==
    /\ th[w].pc = "e_save"
    /\ LET f == Unwind(th[w])
           m == f.methods[f.idx].model
           path == _generate_filename(EditFilenamePrompt(m, f.translated), clock)
       IN  \/ /\ files' = files \cup {path}
              /\ th' = [th EXCEPT ![w] =
                          [f EXCEPT !.pc = "done", !.saved_path = path,
                                    !.result = path, !.saves = @ + 1]]
           \/ /\ files' \in {files, files \cup {path}}
              /\ th' = [th EXCEPT ![w] = Raise(f, "IOError")]
    /\ UNCHANGED <<config, utcOffset, cacheOn, gofileOk, stats, db, clock, calls, edits, hist>>

\* except (ConnectionError, ValueError, IOError): logger.warning; the loop goes on
EditCatch(w) ==
    /\ th[w].pc = "e_except"
    /\ th' = [th EXCEPT ![w] =
                [Unwind(@) EXCEPT !.pc = "e_loop", !.idx = @ + 1, !.exc = "none",
                                  !.nfailed = @ + 1, !.caught = Append(@, th[w].exc)]]
    /\ UNCHANGED <<config, utcOffset, cacheOn, gofileOk, stats, db, files, clock, calls, edits, hist>>

\* self.stats['errors'] += 1 after the loop: the read
EditFailRead(w) ==
    /\ th[w].pc = "e_fail"
    /\ th' = [th EXCEPT ![w] = [@ EXCEPT !.pc = "e_fail_w", !.reg = stats.errors]]
    /\ UNCHANGED <<config, utcOffset, cacheOn, gofileOk, stats, db, files, clock, calls, edits, hist>>

\* ... the write, and return None
EditFailWrite(w) ==
    /\ th[w].pc = "e_fail_w"
    /\ stats' = [stats EXCEPT !.errors = th[w].reg + 1]
    /\ th' = [th EXCEPT ![w] = [@ EXCEPT !.pc = "done", !.result = NoPath]]
    /\ UNCHANGED <<config, utcOffset, cacheOn, gofileOk, db, files, clock, calls, edits, hist>>

---------------------------------------------------------------------------
(* The call returns to its caller *)

\* the digest of a call with these overrides, when they fix the seed
KeyOf(prompt, kwargs) == _get_hash(prompt, BuildParams(kwargs, SeedOverride))

Return(w) ==
    /\ th[w].pc = "done"
    /\ LET f == th[w]
       IN  hist' = IF f.op = "generate" /\ f.result # NoPath /\ "seed" \in DOMAIN f.kwargs
                   THEN [hist EXCEPT ![<<f.prompt, f.kwargs>>] = f.result]
                   ELSE hist
    /\ th' = [th EXCEPT ![w] = IdleFrame]
    /\ UNCHANGED <<config, utcOffset, cacheOn, gofileOk, stats, db, files, clock, calls, edits>>

---------------------------------------------------------------------------
(* ImageCache.clean_cache *)

\* age_limit = days if days > 0 else self.max_age_days
AgeLimit(days) == IF days > 0 THEN days ELSE MaxAgeDays

\* cutoff_date = datetime.now() - timedelta(days=age_limit)
Cutoff(days, now) == now - AgeLimit(days) * DaySeconds

\* SELECT ... WHERE last_accessed < cutoff
AgedRows(days, now) == {h \in DOMAIN db : db[h].last_accessed < Cutoff(days, now)}

\* the rows left by the first pass, and the files left when os.remove failed for `stuck`
FilesAfterAgePass(days, now, stuck) ==
    files \ ({db[h].filepath : h \in AgedRows(days, now)} \ stuck)

\* faulty variant of the second pass: it goes over the rows as they were before
\* the first pass, and counts again the rows the first pass has deleted
OrphanRowsOfStaleSelect(rows, fs) == {h \in DOMAIN db : db[h].filepath \notin fs}

\* the second pass: rows whose file does not exist
OrphanRows(rows, fs) == {h \in rows : db[h].filepath \notin fs}

\* faulty variant of the first pass: a failed os.remove skips the DELETE of its row
RowsAfterUncaughtFailure(days, now, stuck) ==
    DOMAIN db \ {h \in AgedRows(days, now) : db[h].filepath \notin stuck \cap files}

\* the rows the first pass leaves in the table (a failed os.remove is caught:
\* the DELETE of the row follows it all the same)
RowsAfterAgePass(days, now, stuck) == DOMAIN db \ AgedRows(days, now)

\* faulty variant of clean_cache: a failed os.remove is not caught, the sweep
\* stops there and its transaction is rolled back
clean_cache_aborting(days, now, stuck) ==
    LET fs == FilesAfterAgePass(days, now, stuck)
        failed == stuck \cap files # {}
        rows1 == IF failed THEN DOMAIN db ELSE RowsAfterAgePass(days, now, stuck)
        orphans == IF failed THEN {} ELSE OrphanRows(rows1, fs)
        rows2 == rows1 \ orphans
    IN  [db |-> [h \in rows2 |-> db[h]],
         files |-> fs,
         aged |-> AgedRows(days, now),
         deleted_count |-> IF failed THEN 0
                           ELSE Cardinality(AgedRows(days, now)) + Cardinality(orphans),
         returned |-> <<>>]

\* clean_cache(days) with datetime.now() read as now and os.remove failing on
\* the files of stuck: the table and the disk it leaves, the rows of its first
\* SELECT, its counter and what it returns (nothing: <<>>)
clean_cache(days, now, stuck) ==
    LET fs == FilesAfterAgePass(days, now, stuck)
        rows1 == RowsAfterAgePass(days, now, stuck)
        orphans == OrphanRows(rows1, fs)
        rows2 == rows1 \ orphans
    IN  [db |-> [h \in rows2 |-> db[h]],
         files |-> fs,
         aged |-> AgedRows(days, now),
         deleted_count |-> Cardinality(AgedRows(days, now)) + Cardinality(orphans),
         returned |-> <<>>]

\* datetime.now(): local time.  The cutoff is bound as text with microseconds,
\* and 'S' < 'S.ffffff' holds for a row stamped in the cutoff's own second S,
\* so a reading with a fractional part selects what a reading of the next whole
\* second selects.
NowReadings == {clock + utcOffset, clock + utcOffset + 1}

\* the files os.remove may fail on: those of the rows of the first SELECT
RemovalFailures(days, now) == SUBSET {db[h].filepath : h \in AgedRows(days, now)}

CleanCache(days) ==
    /\ cacheOn
    /\ \A w \in Workers : th[w].pc = "idle"
    /\ \E now \in NowReadings :
       \E stuck \in RemovalFailures(days, now) :
          LET r == clean_cache(days, now, stuck)
              gone == DOMAIN db \ DOMAIN r.db
          IN  /\ files' = r.files
              /\ db' = r.db
              /\ hist' = [k \in HistKeys |->
                            IF KeyOf(k[1], k[2]) \in gone \/ hist[k] \notin r.files
                            THEN NoPath ELSE hist[k]]
    /\ UNCHANGED <<config, utcOffset, cacheOn, gofileOk, stats, clock, calls, edits, th>>

---------------------------------------------------------------------------
(* The environment: time passes, files are deleted by the user *)

\* the steps of the clock: a second, a second less than max_age_days, a day more
LongTick == (MaxAgeDays + 1) * DaySeconds
NearTick == MaxAgeDays * DaySeconds - 1

\* the number of steps the clock has made: the fewest that add up to now
StepCap == MaxTicks + MaxCacheTicks + 1
Ticks(now) ==
    LET sums == {ab \in (0..StepCap) \X (0..StepCap) :
                    /\ ab[1] * LongTick + ab[2] * NearTick <= now
                    /\ now - (ab[1] * LongTick + ab[2] * NearTick) <= StepCap}
        steps(ab) == ab[1] + ab[2] + (now - (ab[1] * LongTick + ab[2] * NearTick))
    IN  IF sums = {} THEN StepCap
        ELSE CHOOSE n \in 0..(3 * StepCap) :
                /\ \E ab \in sums : steps(ab) = n
                /\ \A ab \in sums : steps(ab) >= n

\* d seconds pass between two calls, in a session of at most limit such steps
TickBy(d, limit) ==
    /\ Ticks(clock) < limit
    /\ \A w \in Workers : th[w].pc = "idle"
    /\ clock' = clock + d
    /\ UNCHANGED <<config, utcOffset, cacheOn, gofileOk, stats, db, files, calls, edits, th, hist>>

\* a second passes between two calls
Tick == TickBy(1, MaxTicks)

TickLong == TickBy(LongTick, MaxTicks)

\* the user deletes a file between two calls: a cached image or a source image
CachedFiles == {db[h].filepath : h \in DOMAIN db}

DeleteFile(path) ==
    /\ path \in files
    /\ \A w \in Workers : th[w].pc = "idle"
    /\ files' = files \ {path}
    /\ hist' = [k \in HistKeys |-> IF hist[k] = path THEN NoPath ELSE hist[k]]
    /\ UNCHANGED <<config, utcOffset, cacheOn, gofileOk, stats, db, clock, calls, edits, th>>

---------------------------------------------------------------------------
(* Specifications *)

\* the steps of a call of generate_image
GenStep(w) ==
    \/ GenLookup(w) \/ GenHitRead(w) \/ GenHitWrite(w) \/ GenTranslate(w)
    \/ MrRequest(w) \/ MrBackoff(w)
    \/ GenSave(w) \/ GenStore(w) \/ GenCountRead(w) \/ GenCountWrite(w)
    \/ GenErrRead(w) \/ GenErrWrite(w)
    \/ Return(w)

\* the steps of a call of edit_image
EditStep(w) ==
    \/ EditExists(w) \/ EditUpload(w) \/ EditTranslate(w) \/ EditLoop(w)
    \/ MrRequest(w) \/ MrBackoff(w)
    \/ EditSave(w) \/ EditCatch(w) \/ EditFailRead(w) \/ EditFailWrite(w)
    \/ Return(w)

\* the caller thread of the command-line and web interfaces
MainThread == CHOOSE w \in Workers : \A v \in Workers : w <= v

\* A session of generate_image calls, one caller thread per operation, with the
\* cache maintenance and the user's deletions of cached images between calls.
InitGen ==
    /\ Init
    /\ utcOffset = 0
    /\ config.model_edicion = DefaultEditModel
    /\ gofileOk

Next ==
    \/ \E p \in Prompts, kw \in KwargsChoices, r \in RandomSeeds : GenStart(MainThread, p, kw, r)
    \/ GenStep(MainThread)
    \/ Tick
    \/ TickLong
    \/ \E path \in CachedFiles : DeleteFile(path)
    \/ \E days \in {0, MaxAgeDays} : CleanCache(days)

Spec == InitGen /\ [][Next]_vars

\* A session of edit_image calls, one caller thread per operation.
InitEdit ==
    /\ Init
    /\ utcOffset = 0
    /\ cacheOn

NextEdit ==
    \/ \E p \in Prompts : EditStart(MainThread, p, InputImage)
    \/ EditStep(MainThread)
    \/ DeleteFile(InputImage)

SpecEdit == InitEdit /\ [][NextEdit]_vars

\* A batch: the worker pool maps generate_image over the prompts, every worker
\* on the shared ImageTool (handle_batch_generation).
BatchStart(w, prompt, random_seed) ==
    /\ calls < BatchSize
    /\ StartGenerate(w, prompt, NoKwargs, random_seed)

InitBatch ==
    /\ Init
    /\ utcOffset = 0
    /\ config.max_retries = 1
    /\ config.model_edicion = DefaultEditModel
    /\ gofileOk

NextBatch ==
    \E w \in Workers :
        \/ \E p \in Prompts, r \in RandomSeeds : BatchStart(w, p, r)
        \/ GenStep(w)

SpecBatch == InitBatch /\ [][NextBatch]_vars

\* A session of the cache alone: the calls ImageTool and the tool menu make on
\* ImageCache (get, store after a saved image, clean_cache), one at a time, the
\* frame keeping what the last call saw and returned.

\* a dict with the same items, inserted in the opposite order
Reversed(parameters) == [i \in 1..Len(parameters) |-> parameters[Len(parameters) + 1 - i]]

\* the parameter dicts of the calls: a caller's seed, either insertion order
CacheParams ==
    LET built == {BuildParams(kw, r) : kw \in KwargsChoices \ {NoKwargs}, r \in RandomSeeds}
    IN  built \cup {Reversed(parameters) : parameters \in built}

\* the frame of a cache call that has returned
CacheFrame(op, prompt, parameters) ==
    [IdleFrame EXCEPT !.op = op, !.pc = "done", !.prompt = prompt, !.params = parameters,
                      !.start_time = clock, !.pre_db = db, !.pre_files = files]

\* the row and the file a lookup of the digest finds
Lookup(prompt, parameters) ==
    LET h == _get_hash(prompt, parameters)
    IN  IF h \in DOMAIN db
        THEN [row |-> TRUE, filepath |-> db[h].filepath,
              file_exists |-> db[h].filepath \in files]
        ELSE NoLookup

\* self.cache.get(prompt, params)
CallGet(w, prompt, parameters) ==
    /\ th[w].pc = "idle"
    /\ calls < MaxCacheOps
    /\ calls' = calls + 1
    /\ db' = DbAfterGet(prompt, parameters, clock)
    /\ th' = [th EXCEPT ![w] =
                [CacheFrame("get", prompt, parameters) EXCEPT
                    !.lk = Lookup(prompt, parameters),
                    !.result = CacheGet(prompt, parameters)]]
    /\ UNCHANGED <<config, utcOffset, cacheOn, gofileOk, stats, files, clock, edits, hist>>

\* saved_path := self._save_image(...); self.cache.store(prompt, params, saved_path)
CallStore(w, prompt, parameters, filepath) ==
    /\ th[w].pc = "idle"
    /\ calls < MaxCacheOps
    /\ calls' = calls + 1
    /\ files' = files \cup {filepath}
    /\ db' = DbAfterStore(prompt, parameters, filepath, clock)
    /\ th' = [th EXCEPT ![w] =
                [CacheFrame("store", prompt, parameters) EXCEPT
                    !.lk = Lookup(prompt, parameters),
                    !.saved_path = filepath, !.stores = 1]]
    /\ UNCHANGED <<config, utcOffset, cacheOn, gofileOk, stats, clock, edits, hist>>

\* t.cache.clean_cache(days), also right after another clean_cache
CallCleanCache(w, days) ==
    /\ \/ th[w].pc = "idle"
       \/ th[w].pc = "done" /\ th[w].op = "clean_cache"
    /\ calls < MaxCacheOps
    /\ calls' = calls + 1
    /\ \E now \in NowReadings :
       \E stuck \in RemovalFailures(days, now) :
          LET r == clean_cache(days, now, stuck)
          IN  /\ files' = r.files
              /\ db' = r.db
              /\ th' = [th EXCEPT ![w] =
                          [CacheFrame("clean_cache", <<>>, <<>>) EXCEPT
                              !.days = days, !.now = now, !.stuck = stuck,
                              !.aged = r.aged, !.deleted_count = r.deleted_count,
                              !.returned = r.returned,
                              !.again = (th[w].op = "clean_cache"),
                              !.prev_now = th[w].now, !.prev_days = th[w].days,
                              !.prev_stuck = th[w].stuck \cap th[w].pre_files,
                              !.prev_deleted_count = th[w].deleted_count]]
    /\ UNCHANGED <<config, utcOffset, cacheOn, gofileOk, stats, clock, edits, hist>>

\* ImageCache.__init__ on the database file of an earlier run: the table is
\* created if it is not there, then self.clean_cache(max_age_days)
ImageCache__init__(w) ==
    /\ th[w].pc = "idle"
    /\ CallCleanCache(w, MaxAgeDays)

\* the paths generate_image can save the image of a prompt under at this time
SavePaths(prompt) == {_generate_filename(t, clock) : t \in TranslateResults(prompt)}

InitCache ==
    /\ Init
    /\ cacheOn
    /\ gofileOk
    /\ config.max_retries = 1
    /\ config.model_edicion = DefaultEditModel

NextCache ==
    \/ \E p \in Prompts, parameters \in CacheParams : CallGet(MainThread, p, parameters)
    \/ \E p \in Prompts, parameters \in CacheParams :
          \E filepath \in SavePaths(p) : CallStore(MainThread, p, parameters, filepath)
    \/ \E days \in {0, 1} : CallCleanCache(MainThread, days)
    \/ ImageCache__init__(MainThread)
    \/ Return(MainThread)
    \/ \E d \in {NearTick, LongTick} : TickBy(d, MaxCacheTicks)
    \/ \E path \in CachedFiles : DeleteFile(path)

SpecCache == InitCache /\ [][NextCache]_vars

\* A cache shared by two threads (or two processes on the same database file):
\* one runs clean_cache statement by statement, the other get and store, each
\* on a connection of its own.  A transaction opens at the first DELETE or
\* UPDATE of a connection and holds the write lock until the commit at the end
\* of the with block; the other connection's writes wait for it and its reads
\* see the committed table.
Locked == \E w \in Workers : th[w].lock

\* the table as the connection of frame f reads it
TableSeenBy(f) == [h \in DOMAIN db \ f.pend |-> db[h]]

\* clean_cache is entered: age_limit, the connection and datetime.now()
SweepStart(w, days) ==
    /\ th[w].pc = "idle"
    /\ calls < MaxSweepOps
    /\ calls' = calls + 1
    /\ \E now \in NowReadings :
          th' = [th EXCEPT ![w] =
                    [CacheFrame("clean_cache", <<>>, <<>>) EXCEPT
                        !.pc = "s_select", !.days = days, !.now = now]]
    /\ UNCHANGED <<config, utcOffset, cacheOn, gofileOk, stats, db, files, clock, edits, hist>>

\* SELECT prompt_hash, filepath ... WHERE last_accessed < ?; fetchall()
SweepSelectAged(w) ==
    /\ th[w].pc = "s_select"
    /\ LET aged == AgedRows(th[w].days, th[w].now)
       IN  th' = [th EXCEPT ![w] =
                    [@ EXCEPT !.pc = "s_age", !.aged = aged,
                              !.todo = {<<h, db[h].filepath>> : h \in aged}]]
    /\ UNCHANGED <<config, utcOffset, cacheOn, gofileOk, stats, db, files, clock, calls, edits, hist>>

\* what the row of a DELETE held when the DELETE ran
Victim(f, h, pass) ==
    LET t == TableSeenBy(f)
    IN  IF h \in DOMAIN t
        THEN {[hash |-> h, last_accessed |-> t[h].last_accessed,
               had_file |-> t[h].filepath \in files, pass |-> pass]}
        ELSE {}

\* one iteration of the first loop: os.remove if the file exists (a failure is
\* logged), DELETE of the row by its hash, deleted_count += 1
SweepAgeRow(w) ==
    /\ th[w].pc = "s_age"
    /\ th[w].todo # {}
    /\ \E row \in th[w].todo :
          /\ files' \in {files \ {row[2]}, files}
          /\ th' = [th EXCEPT ![w] =
                      [@ EXCEPT !.todo = @ \ {row},
                                !.pend = @ \cup {row[1]},
                                !.lock = TRUE,
                                !.victims = @ \cup Victim(th[w], row[1], 1),
                                !.stuck = IF row[2] \in files' THEN @ \cup {row[2]} ELSE @,
                                !.deleted_count = @ + 1]]
    /\ UNCHANGED <<config, utcOffset, cacheOn, gofileOk, stats, db, clock, calls, edits, hist>>

\* SELECT prompt_hash, filepath FROM image_cache; fetchall()
SweepSelectAll(w) ==
    /\ th[w].pc = "s_age"
    /\ th[w].todo = {}
    /\ LET t == TableSeenBy(th[w])
       IN  th' = [th EXCEPT ![w] =
                    [@ EXCEPT !.pc = "s_orphan",
                              !.todo = {<<h, t[h].filepath>> : h \in DOMAIN t}]]
    /\ UNCHANGED <<config, utcOffset, cacheOn, gofileOk, stats, db, files, clock, calls, edits, hist>>

\* one iteration of the second loop: if not Path(filepath).exists(): DELETE
SweepOrphanRow(w) ==
    /\ th[w].pc = "s_orphan"
    /\ th[w].todo # {}
    /\ \E row \in th[w].todo :
          th' = [th EXCEPT ![w] =
                    IF row[2] \in files
                    THEN [@ EXCEPT !.todo = @ \ {row}]
                    ELSE [@ EXCEPT !.todo = @ \ {row},
                                   !.pend = @ \cup {row[1]},
                                   !.lock = TRUE,
                                   !.victims = @ \cup Victim(th[w], row[1], 2),
                                   !.deleted_count = @ + 1]]
    /\ UNCHANGED <<config, utcOffset, cacheOn, gofileOk, stats, db, files, clock, calls, edits, hist>>

\* conn.commit() and the end of the with block
SweepCommit(w) ==
    /\ th[w].pc = "s_orphan"
    /\ th[w].todo = {}
    /\ db' = TableSeenBy(th[w])
    /\ th' = [th EXCEPT ![w] = [@ EXCEPT !.pc = "done", !.lock = FALSE, !.pend = {}]]
    /\ UNCHANGED <<config, utcOffset, cacheOn, gofileOk, stats, files, clock, calls, edits, hist>>

\* get is entered: the SELECT of the row, and Path(result[0]).exists()
GetSelect(w, prompt, parameters) ==
    /\ th[w].pc = "idle"
    /\ calls < MaxSweepOps
    /\ calls' = calls + 1
    /\ th' = [th EXCEPT ![w] =
                [CacheFrame("get", prompt, parameters) EXCEPT
                    !.lk = Lookup(prompt, parameters),
                    !.pc = IF CacheGet(prompt, parameters) # NoPath THEN "c_update" ELSE "done",
                    !.saved_path = CacheGet(prompt, parameters)]]
    /\ UNCHANGED <<config, utcOffset, cacheOn, gofileOk, stats, db, files, clock, edits, hist>>

\* UPDATE ... SET last_accessed = CURRENT_TIMESTAMP WHERE prompt_hash = ?;
\* return result[0]
GetUpdate(w) ==
    /\ th[w].pc = "c_update"
    /\ ~Locked
    /\ LET h == _get_hash(th[w].prompt, th[w].params)
       IN  db' = IF h \in DOMAIN db THEN [db EXCEPT ![h].last_accessed = clock] ELSE db
    /\ th' = [th EXCEPT ![w] =
                [@ EXCEPT !.pc = "done", !.result = th[w].saved_path,
                          !.gone = th[w].saved_path \notin files]]
    /\ UNCHANGED <<config, utcOffset, cacheOn, gofileOk, stats, files, clock, calls, edits, hist>>

\* _save_image and store by the other thread: the INSERT OR REPLACE waits for
\* the write lock
StoreUnlocked(w, prompt, parameters, filepath) ==
    /\ ~Locked
    /\ CallStore(w, prompt, parameters, filepath)

InitSweep ==
    /\ InitCache
    /\ utcOffset = 0

\* the main thread sweeps, another thread is the client of the cache
NextSweep ==
    \/ \E days \in {0, MaxAgeDays} : SweepStart(MainThread, days)
    \/ SweepSelectAged(MainThread) \/ SweepAgeRow(MainThread) \/ SweepSelectAll(MainThread)
    \/ SweepOrphanRow(MainThread) \/ SweepCommit(MainThread)
    \/ \E c \in Workers \ {MainThread} :
          \/ \E p \in Prompts, parameters \in CacheParams : GetSelect(c, p, parameters)
          \/ GetUpdate(c)
          \/ \E p \in Prompts, parameters \in CacheParams :
                \E filepath \in SavePaths(p) : StoreUnlocked(c, p, parameters, filepath)
    \/ \E w \in Workers : Return(w)
    \/ TickBy(LongTick, MaxTicks)
    \/ \E path \in CachedFiles : DeleteFile(path)

SpecSweep == InitSweep /\ [][NextSweep]_vars

---------------------------------------------------------------------------
(* ImageTool.run_diagnostics *)

\* reply bodies: text that is not JSON, and JSON values (null, strings, lists
\* and objects, an object being a function on the keys it has)
JsonBodies ==
    LET null == [t |-> "null"]
        str(x) == [t |-> "str", v |-> x]
        obj(f) == [t |-> "obj", v |-> f]
    IN  {[t |-> "not-json"], null,
         [t |-> "list", v |-> <<"flux", "kontext">>], [t |-> "list", v |-> <<"flux">>],
         obj(<<>>), obj([data |-> null]), obj([data |-> obj(<<>>)]),
         obj([data |-> obj([id |-> null])]), obj([data |-> obj([id |-> str("acc")])]),
         obj([status |-> str("error")]), obj([status |-> str("ok")]),
         obj([status |-> str("ok"), data |-> null]),
         obj([status |-> str("ok"), data |-> obj(<<>>)]),
         obj([status |-> str("ok"), data |-> obj([email |-> str("e")])])}

\* what requests.get may produce for a diagnostic request
DiagResponses ==
    [status : {200, 503}, content_type : {"application/json"}, body : JsonBodies]
        \cup {TransportFailure}

\* dict.get(key, default) on a JSON object
DictGet(j, key, default) == IF key \in DOMAIN j.v THEN j.v[key] ELSE default

\* id_response.raise_for_status(); id_response.json().get('data', {}).get('id'):
\* the exception raised, or the account id
AccountIdOf(resp) ==
    LET none == [exc |-> "none", account_id |-> [t |-> "null"]]
    IN  IF resp = TransportFailure THEN [none EXCEPT !.exc = "RequestException"]
        ELSE IF RaisesHTTPError(resp) THEN [none EXCEPT !.exc = "HTTPError"]
        ELSE IF resp.body.t = "not-json" THEN [none EXCEPT !.exc = "JSONDecodeError"]
        ELSE IF resp.body.t # "obj" THEN [none EXCEPT !.exc = "AttributeError"]
        ELSE LET data == DictGet(resp.body, "data", [t |-> "obj", v |-> <<>>])
             IN  IF data.t # "obj" THEN [none EXCEPT !.exc = "AttributeError"]
                 ELSE [none EXCEPT !.account_id = DictGet(data, "id", [t |-> "null"])]

\* details_response.raise_for_status(); data = details_response.json();
\* data.get('status') == 'ok' and data['data']['email']: the exception raised
DetailsCheck(resp) ==
    IF resp = TransportFailure THEN "RequestException"
    ELSE IF RaisesHTTPError(resp) THEN "HTTPError"
    ELSE IF resp.body.t = "not-json" THEN "JSONDecodeError"
    ELSE IF resp.body.t # "obj" THEN "AttributeError"
    ELSE IF DictGet(resp.body, "status", [t |-> "null"]) # [t |-> "str", v |-> "ok"] THEN "none"
    ELSE IF "data" \notin DOMAIN resp.body.v THEN "KeyError"
    ELSE IF resp.body.v["data"].t # "obj" THEN "TypeError"
    ELSE IF "email" \notin DOMAIN resp.body.v["data"].v THEN "KeyError"
    ELSE "none"

\* except HTTPError / except RequestException / except json.JSONDecodeError
DiagExcept == {"HTTPError", "RequestException", "JSONDecodeError"}

\* the frame after the try block of the GoFile check ended with exception e
\* ("none": it ran to its end): the call returns, or e leaves it
DiagEnd(f, e) ==
    IF e = "none" \/ e \in DiagExcept
    THEN [f EXCEPT !.pc = "done", !.exc = e]
    ELSE [f EXCEPT !.pc = "done", !.raised = e]

\* faulty variant of the first check: a failed models request is made again
AfterModelsCheckRetry(f, resp) ==
    [f EXCEPT !.log = Append(@, <<"request", "models">>),
              !.pc = IF resp = TransportFailure \/ resp.status # 200
                     THEN "d_models" ELSE "d_getid"]

\* the frame after the first check: whatever the models request produced is
\* logged (except Exception), and the GoFile check follows
AfterModelsCheck(f, resp) ==
    [f EXCEPT !.log = Append(@, <<"request", "models">>), !.pc = "d_getid"]

DiagStart(w) ==
    /\ th[w].pc = "idle"
    /\ calls < MaxDiagCalls
    /\ calls' = calls + 1
    /\ th' = [th EXCEPT ![w] =
                [CacheFrame("diagnostics", <<>>, <<>>) EXCEPT
                    !.pc = "d_models", !.pre_stats = stats]]
    /\ UNCHANGED <<config, utcOffset, cacheOn, gofileOk, stats, db, files, clock, edits, hist>>

\* requests.get(".../models", timeout=15) and what is logged about it
DiagModels(w) ==
    /\ th[w].pc = "d_models"
    /\ Len(th[w].log) < MaxDiagRequests
    /\ \E resp \in DiagResponses : th' = [th EXCEPT ![w] = AfterModelsCheck(@, resp)]
    /\ UNCHANGED <<config, utcOffset, cacheOn, gofileOk, stats, db, files, clock, calls, edits, hist>>

\* the credentials check, the getid request, and the return when no id came
DiagGetId(w) ==
    /\ th[w].pc = "d_getid"
    /\ IF ~gofileOk
       THEN th' = [th EXCEPT ![w] = [@ EXCEPT !.pc = "done"]]
       ELSE \E resp \in DiagResponses :
               LET f == [th[w] EXCEPT !.log = Append(@, <<"request", "getid">>)]
                   r == AccountIdOf(resp)
               IN  th' = [th EXCEPT ![w] =
                            IF r.exc # "none" THEN DiagEnd(f, r.exc)
                            ELSE IF r.account_id.t = "str"
                                 THEN [f EXCEPT !.pc = "d_details", !.account_id = r.account_id]
                                 ELSE [f EXCEPT !.pc = "done"]]
    /\ UNCHANGED <<config, utcOffset, cacheOn, gofileOk, stats, db, files, clock, calls, edits, hist>>

\* the account-details request and what is logged about it
DiagDetails(w) ==
    /\ th[w].pc = "d_details"
    /\ \E resp \in DiagResponses :
          th' = [th EXCEPT ![w] =
                    DiagEnd([@ EXCEPT !.log = Append(@, <<"request", "details">>)],
                            DetailsCheck(resp))]
    /\ UNCHANGED <<config, utcOffset, cacheOn, gofileOk, stats, db, files, clock, calls, edits, hist>>

\* A session of the tools menu: diagnostics, with images cached before them.
InitDiag ==
    /\ Init
    /\ utcOffset = 0
    /\ config.model_edicion = DefaultEditModel

NextDiag ==
    \/ DiagStart(MainThread)
    \/ DiagModels(MainThread) \/ DiagGetId(MainThread) \/ DiagDetails(MainThread)
    \/ Return(MainThread)
    \/ \E p \in Prompts, parameters \in CacheParams :
          \E filepath \in SavePaths(p) :
              cacheOn /\ CallStore(MainThread, p, parameters, filepath)

SpecDiag == InitDiag /\ [][NextDiag]_vars

---------------------------------------------------------------------------
(* ImageTool._translate_prompt, reply by reply *)

\* a prompt one character longer than the translation limit, not all ASCII
LongPrompt == [i \in 1..(TranslateLimit + 1) |-> IF i = 1 THEN NTilde ELSE "a"]

\* what requests.get may produce for the translation request
TranslationResponses ==
    LET null == [t |-> "null"]
        obj(f) == [t |-> "obj", v |-> f]
        reply(body) == [status |-> 200, content_type |-> "application/json", body |-> body]
    IN  {TransportFailure,
         [status |-> 503, content_type |-> "text/html", body |-> [t |-> "not-json"]],
         reply([t |-> "not-json"]), reply(obj(<<>>)), reply(obj([responseData |-> null])),
         reply(obj([responseData |-> obj(<<>>)])),
         reply(obj([responseData |-> obj([translatedText |-> null])]))}
      \cup {reply(obj([responseData |-> obj([translatedText |-> [t |-> "str", v |-> x]])])) :
               x \in TranslationReplies}

\* _translate_prompt(text) when the service answers resp: the texts sent to the
\* service, how the call ended, and the text returned (is_none: it returned None)
_translate_prompt(text, resp) ==
    LET cut == Truncate(text)
        back(outcome) == [sent |-> <<cut>>, outcome |-> outcome, is_none |-> FALSE, result |-> cut]
    IN  IF AllAscii(cut)
        THEN [sent |-> <<>>, outcome |-> "not-needed", is_none |-> FALSE, result |-> cut]
        ELSE IF resp = TransportFailure \/ RaisesHTTPError(resp) \/ resp.body.t # "obj"
             THEN back("failed")
        ELSE IF "responseData" \notin DOMAIN resp.body.v THEN back("failed")
        ELSE IF resp.body.v["responseData"].t # "obj" THEN back("failed")
        ELSE IF "translatedText" \notin DOMAIN resp.body.v["responseData"].v THEN back("failed")
        ELSE LET translated == resp.body.v["responseData"].v["translatedText"]
             IN  IF translated.t = "str"
                 THEN [back("translated") EXCEPT !.result = translated.v]
                 ELSE [back("none-returned") EXCEPT !.is_none = TRUE, !.result = <<>>]

\* translated_prompt = self._translate_prompt(prompt) and the statements up to
\* the first _make_request, in generate_image (quote_plus(None) raises
\* TypeError) and in edit_image (None is formatted into the prompt as 'None')
TranslateVia(w) ==
    /\ th[w].pc \in {"g_translate", "e_translate"}
    /\ \E resp \in TranslationResponses :
          LET r == _translate_prompt(th[w].prompt, resp)
              f == [th[w] EXCEPT !.tr_calls = @ + 1, !.sent = @ \o r.sent,
                                 !.tr_outcome = r.outcome, !.translated = r.result]
          IN  th' = [th EXCEPT ![w] =
                       IF f.op = "generate"
                       THEN IF r.is_none
                            THEN [f EXCEPT !.pc = "done", !.raised = "TypeError"]
                            ELSE EnterMakeRequest(f)
                       ELSE [f EXCEPT !.pc = "e_loop",
                                      !.translated = IF r.is_none THEN <<"N", "o", "n", "e">> ELSE @,
                                      !.methods = BuildMethods(config.model_edicion),
                                      !.idx = 1]]
    /\ UNCHANGED <<config, utcOffset, cacheOn, gofileOk, stats, db, files, clock, calls, edits, hist>>

\* A session of generate_image and edit_image calls with prompts that need
\* translation, the translation service answering in every way it can.
NextTranslate ==
    LET w == MainThread
    IN  \/ \E p \in {PromptEs, LongPrompt}, r \in RandomSeeds : GenStart(w, p, NoKwargs, r)
        \/ \E p \in {PromptEs, LongPrompt} : EditStart(w, p, InputImage)
        \/ TranslateVia(w)
        \/ GenLookup(w) \/ MrRequest(w) \/ MrBackoff(w)
        \/ GenSave(w) \/ GenStore(w) \/ GenCountRead(w) \/ GenCountWrite(w)
        \/ GenErrRead(w) \/ GenErrWrite(w)
        \/ EditExists(w) \/ EditUpload(w) \/ EditLoop(w) \/ EditSave(w) \/ EditCatch(w)
        \/ EditFailRead(w) \/ EditFailWrite(w)
        \/ Return(w)

InitTranslate ==
    /\ Init /\ utcOffset = 0 /\ cacheOn /\ gofileOk
    /\ config.max_retries = 1 /\ config.model_edicion = DefaultEditModel

SpecTranslate == InitTranslate /\ [][NextTranslate]_vars

---------------------------------------------------------------------------
(* A session of both operations *)

\* A session of the interactive interfaces on one ImageTool: generate_image and
\* edit_image calls in any order, one at a time, the clock running during and
\* between the calls, and the retry budget configured as low as a document
\* allows (config_manager.get returns whatever integer the file holds).
InitSession ==
    /\ config \in [max_retries : (0 - NegativeRetries)..1, model_edicion : {DefaultEditModel}]
    /\ cacheOn \in BOOLEAN
    /\ gofileOk \in BOOLEAN
    /\ stats = ZeroStats
    /\ db = <<>>
    /\ files = {InputImage}
    /\ clock = 0
    /\ utcOffset = 0
    /\ calls = 0
    /\ edits = 0
    /\ th = [w \in Workers |-> IdleFrame]
    /\ hist = [k \in HistKeys |-> NoPath]

NextSession ==
    \/ \E r \in RandomSeeds : GenStart(MainThread, PromptEn, NoKwargs, r)
    \/ GenStep(MainThread)
    \/ EditStart(MainThread, PromptEn, InputImage)
    \/ EditStep(MainThread)
    \/ DeleteFile(InputImage)
    \/ /\ clock < MaxTicks
       /\ clock' = clock + 1
       /\ UNCHANGED <<config, utcOffset, cacheOn, gofileOk, stats, db, files, calls, edits, th, hist>>

SpecSession == InitSession /\ [][NextSession]_vars

---------------------------------------------------------------------------
(* Properties *)

IsRequest(e) == e[1] = "request"

\* the calls of generate_image and of edit_image that run or have just returned
GenCalls == {w \in Workers : th[w].op = "generate"}
EditCalls == {w \in Workers : th[w].op = "edit"}

\* the lookup of the call found a row whose file was on disk
LookupHadEntry(f) == cacheOn /\ f.lk.row /\ f.lk.file_exists

\* C1 - Cache hit skips network: a generate_image call whose lookup found an
\* entry with its file on disk never calls _make_request nor _translate_prompt,
\* and ends with cache_hits one higher, images_generated and errors as they
\* were, returning the stored path.
C1_CacheHitSkipsNetwork ==
    \A w \in GenCalls :
        LET f == th[w]
        IN  LookupHadEntry(f) =>
                /\ f.mr_calls = 0
                /\ f.tr_calls = 0
                /\ f.log = <<>>
                /\ f.raised = "none"
                /\ f.pc = "done" =>
                      /\ stats.cache_hits = f.pre_stats.cache_hits + 1
                      /\ stats.images_generated = f.pre_stats.images_generated
                      /\ stats.errors = f.pre_stats.errors
                      /\ f.result = f.lk.filepath

C1_Witness ==
    \E w \in GenCalls :
        /\ th[w].pc = "done"
        /\ LookupHadEntry(th[w])
        /\ th[w].result = th[w].lk.filepath
        /\ stats.cache_hits = 1

\* C2 - End-to-end reuse: with the cache enabled, once a generate_image call
\* with prompt P and overrides that fix the seed returned path X, every later
\* call with the same prompt and overrides returns X without calling
\* _make_request, as long as X stayed on disk and no sweep removed its row.
C2_SecondCallReusesPath ==
    \A w \in GenCalls :
        LET f == th[w]
        IN  (/\ cacheOn
             /\ f.pc = "done"
             /\ "seed" \in DOMAIN f.kwargs
             /\ hist[<<f.prompt, f.kwargs>>] # NoPath)
            => /\ f.result = hist[<<f.prompt, f.kwargs>>]
               /\ f.mr_calls = 0
               /\ f.log = <<>>

C2_Witness ==
    \E w \in GenCalls :
        /\ cacheOn
        /\ th[w].pc = "done"
        /\ "seed" \in DOMAIN th[w].kwargs
        /\ hist[<<th[w].prompt, th[w].kwargs>>] # NoPath
        /\ th[w].result = hist[<<th[w].prompt, th[w].kwargs>>]
        /\ calls = 2

\* the log of n attempts that all failed retryably: a request, then a sleep of
\* 2^0, a request, a sleep of 2^1, ..., and no sleep after the last request
BackoffSchedule(n) ==
    [i \in 1..(IF n >= 1 THEN 2 * n - 1 ELSE 0) |->
        IF i % 2 = 1 THEN <<"request", "5xx-or-transport">>
        ELSE <<"sleep", 2 ^ ((i \div 2) - 1)>>]

AllRetryable(log) ==
    \A i \in 1..Len(log) : IsRequest(log[i]) => log[i][2] = "5xx-or-transport"

\* _make_request has just raised ConnectionError into the except clause
RaisedConnectionError(f) == f.pc \in {"g_err", "e_except"} /\ f.exc = "ConnectionError"

\* C3 - Retry backoff schedule: when _make_request raises the retries-exhausted
\* error after attempts that all failed with a 5xx response or a transport
\* failure, it has issued exactly max_retries requests and slept 2^0, 2^1, ...,
\* 2^(max_retries - 2) between them, with no sleep after the last attempt.
C3_RetryBackoffSchedule ==
    \A w \in GenCalls :
        LET f == th[w]
        IN  (RaisedConnectionError(f) /\ AllRetryable(f.log))
            => f.log = BackoffSchedule(config.max_retries)

C3_Witness ==
    \E w \in GenCalls :
        /\ RaisedConnectionError(th[w])
        /\ config.max_retries = 3
        /\ th[w].log = << <<"request", "5xx-or-transport">>, <<"sleep", 1>>,
                          <<"request", "5xx-or-transport">>, <<"sleep", 2>>,
                          <<"request", "5xx-or-transport">> >>

\* C4 - Non-retryable short-circuit: a request answered with a non-2xx status
\* below 500 is the last event of its _make_request call: no request and no
\* sleep follows it, and the loop is left.
C4_NonRetryableShortCircuit ==
    \A w \in GenCalls :
        LET f == th[w]
        IN  \A i \in 1..Len(f.log) :
                (IsRequest(f.log[i]) /\ f.log[i][2] \in {"3xx", "4xx"})
                => /\ i = Len(f.log)
                   /\ f.pc \notin {"mr_req", "mr_backoff"}

C4_Witness ==
    \E w \in GenCalls :
        /\ config.max_retries = 3
        /\ th[w].log = << <<"request", "4xx">> >>
        /\ RaisedConnectionError(th[w])

\* C5 - Content-type guard: a 2xx response that declares no image content type
\* ends _make_request with ValueError at once, and a generate_image call that
\* ended so saved no file, stored no cache entry, left images_generated as it
\* was and returned None.
C5_ContentTypeGuard ==
    \A w \in GenCalls :
        LET f == th[w]
        IN  /\ \A i \in 1..Len(f.log) :
                  (IsRequest(f.log[i]) /\ f.log[i][2] = "2xx-not-image")
                  => /\ i = Len(f.log)
                     /\ f.pc = "g_err"
                     /\ f.exc = "ValueError"
            /\ f.exc = "ValueError" =>
                  /\ f.saves = 0
                  /\ f.stores = 0
                  /\ db = f.pre_db
                  /\ stats.images_generated = f.pre_stats.images_generated
                  /\ f.result = NoPath
                  /\ f.raised = "none"

C5_Witness ==
    \E w \in GenCalls :
        /\ th[w].pc = "done"
        /\ th[w].exc = "ValueError"
        /\ th[w].result = NoPath
        /\ stats.errors = 1

\* C10 - Failure containment in generate: whichever way the request path fails
\* (retries exhausted, 4xx abort, content-type failure, I/O failure while
\* saving), no exception leaves generate_image, and the call ends with errors
\* one higher, images_generated, cache_hits and the cache table as they were,
\* returning None.
C10_FailureContainment ==
    \A w \in GenCalls :
        LET f == th[w]
        IN  /\ f.raised = "none"
            /\ (f.pc = "done" /\ f.exc # "none") =>
                  /\ stats.errors = f.pre_stats.errors + 1
                  /\ stats.images_generated = f.pre_stats.images_generated
                  /\ stats.cache_hits = f.pre_stats.cache_hits
                  /\ db = f.pre_db
                  /\ f.result = NoPath
            /\ (f.pc = "done" /\ f.exc = "none") => f.result # NoPath

C10_Witness ==
    \E w \in GenCalls :
        /\ th[w].pc = "done"
        /\ th[w].exc = "IOError"
        /\ th[w].result = NoPath
        /\ stats.errors = th[w].pre_stats.errors + 1

\* the model names of an attempt list, in order
Names(methods) == [i \in 1..Len(methods) |-> methods[i].model]

\* the edit_image calls whose attempt list is built
EditCallsWithList == {w \in EditCalls : th[w].tr_calls > 0}

\* "edit_<model>_", spelled out per model
ModelTag(m) ==
    CASE m = "kontext" -> <<"e", "d", "i", "t", "_", "k", "o", "n", "t", "e", "x", "t", "_">>
      [] m = "flux" -> <<"e", "d", "i", "t", "_", "f", "l", "u", "x", "_">>
      [] m = "flux-kontext" -> <<"e", "d", "i", "t", "_", "f", "l", "u", "x", "-",
                                 "k", "o", "n", "t", "e", "x", "t", "_">>

\* the file name of path starts with the tag of model m
TaggedWith(path, m) ==
    /\ Len(path[2]) >= Len(ModelTag(m))
    /\ SubSeq(path[2], 1, Len(ModelTag(m))) = ModelTag(m)

\* C6 - Fallback chain short-circuit: when edit_image returns a path and the
\* k-th model of the attempt list is the one that succeeded, exactly the first k
\* models were attempted, the k-1 before it failed, no later one was requested,
\* and the file name of the returned path carries the k-th model's name.
C6_FallbackShortCircuit ==
    \A w \in EditCalls :
        LET f == th[w]
            k == Len(f.tried)
        IN  (f.pc = "done" /\ f.result # NoPath)
            => /\ k >= 1
               /\ k <= Len(f.methods)
               /\ f.tried = SubSeq(Names(f.methods), 1, k)
               /\ f.nfailed = k - 1
               /\ f.mr_calls = k
               /\ f.saves = 1
               /\ TaggedWith(f.result, f.methods[k].model)
               /\ \A m \in KnownModels \ {f.methods[k].model} : ~TaggedWith(f.result, m)

C6_Witness ==
    \E w \in EditCalls :
        /\ th[w].pc = "done"
        /\ th[w].result # NoPath
        /\ Len(th[w].tried) = 2
        /\ th[w].nfailed = 1
        /\ TaggedWith(th[w].result, th[w].methods[2].model)

\* the attempt list the preferred model pm leads to, spelled out
ExpectedAttempts(pm) ==
    CASE pm = "kontext" -> <<"kontext", "flux", "flux-kontext">>
      [] pm = "flux" -> <<"flux", "kontext", "flux-kontext">>
      [] pm = "flux-kontext" -> <<"flux-kontext", "kontext", "flux">>
      [] OTHER -> <<"kontext", "flux", "flux-kontext">>

NoDuplicates(s) == \A i, j \in 1..Len(s) : s[i] = s[j] => i = j

\* C7 as stated - Edit attempt order: for every value of model_edicion the
\* attempt list starts with the preferred model and goes on with every other
\* known model once, in the order kontext, flux, flux-kontext.
C7_PreferredAlwaysFirst ==
    \A w \in EditCallsWithList :
        LET names == Names(th[w].methods)
            pm == config.model_edicion
        IN  /\ Len(names) >= 1
            /\ names[1] = pm
            /\ Tail(names) = SelectSeq(<<"kontext", "flux", "flux-kontext">>,
                                       LAMBDA m : m # pm)
            /\ NoDuplicates(names)

\* C7 - Edit attempt order, amended: for a preferred model that is one of the
\* known models the attempt list is the preferred model followed by the other
\* known models in the order kontext, flux, flux-kontext; a preferred model
\* that is not known is left out and the list is kontext, flux, flux-kontext.
\* No model appears twice.
C7_EditAttemptOrder ==
    \A w \in EditCallsWithList :
        LET names == Names(th[w].methods)
        IN  /\ names = ExpectedAttempts(config.model_edicion)
            /\ NoDuplicates(names)

C7_Witness ==
    \E w \in EditCallsWithList :
        /\ config.model_edicion = "turbo"
        /\ Names(th[w].methods) = <<"kontext", "flux", "flux-kontext">>
        /\ th[w].tried = <<"kontext">>

\* C8 - All-attempts-exhausted: edit_image counts an error only once per call,
\* together with returning None, and only after every model of the attempt list
\* was tried and failed.
C8_AllAttemptsExhausted ==
    \A w \in EditCalls :
        LET f == th[w]
        IN  /\ f.pc \in {"e_fail", "e_fail_w"} =>
                  /\ f.tried = Names(f.methods)
                  /\ f.nfailed = Len(f.methods)
                  /\ stats.errors = f.pre_stats.errors
            /\ stats.errors # f.pre_stats.errors =>
                  /\ f.pc = "done"
                  /\ f.result = NoPath
                  /\ stats.errors = f.pre_stats.errors + 1
                  /\ f.tried = Names(f.methods)
                  /\ f.nfailed = Len(f.methods)
                  /\ f.mr_calls = Len(f.methods)

C8_Witness ==
    \E w \in EditCalls :
        /\ th[w].pc = "done"
        /\ th[w].result = NoPath
        /\ th[w].nfailed = 3
        /\ Len(th[w].tried) = 3
        /\ stats.errors = th[w].pre_stats.errors + 1

\* C9 - Edit preconditions: edit_image requests a model only after the source
\* file was found on disk and the upload returned a link; with the source
\* missing it uploads nothing, translates nothing and requests nothing; with
\* the upload failed it attempts no model; both calls return None.
C9_EditPreconditions ==
    \A w \in EditCalls :
        LET f == th[w]
        IN  /\ (f.mr_calls > 0 \/ f.tried # <<>>) => (f.src = "exists" /\ f.upload = "ok")
            /\ f.src = "missing" =>
                  /\ f.uploads = 0
                  /\ f.tr_calls = 0
                  /\ f.mr_calls = 0
                  /\ f.pc = "done"
                  /\ f.result = NoPath
            /\ f.upload = "failed" =>
                  /\ f.tr_calls = 0
                  /\ f.mr_calls = 0
                  /\ f.tried = <<>>
                  /\ f.pc = "done"
                  /\ f.result = NoPath

C9_Witness ==
    \E w \in EditCalls :
        /\ th[w].pc = "done"
        /\ th[w].src = "missing"
        /\ th[w].uploads = 0
        /\ th[w].result = NoPath

\* C11 - Statistics invariant: in every reachable state, batches included,
\* images_generated + cache_hits is at most the number of generate_image calls
\* started, and no step lowers images_generated, cache_hits or errors.
C11_StatisticsInvariant ==
    /\ [](stats.images_generated + stats.cache_hits <= calls)
    /\ [][/\ stats'.images_generated >= stats.images_generated
          /\ stats'.cache_hits >= stats.cache_hits
          /\ stats'.errors >= stats.errors]_vars

\* C12 - Statistics increment on every terminal failure: every generate_image
\* or edit_image call that returns None has incremented errors, the edit_image
\* calls that end on a missing source file or a failed upload included.
C12_ErrorsOnEveryFailure ==
    \A w \in GenCalls \cup EditCalls :
        (th[w].pc = "done" /\ th[w].result = NoPath)
        => stats.errors >= th[w].pre_stats.errors + 1

\* the calls the cache session made on get and store
LookupCalls == {w \in Workers : th[w].op = "get" /\ th[w].pc = "done"}
StoreCalls == {w \in Workers : th[w].op = "store" /\ th[w].pc = "done"}
SweepCalls == {w \in Workers : th[w].op = "clean_cache" /\ th[w].pc = "done"}

\* the insertion orders of a dict of five items
KeyOrders == {o \in [1..5 -> 1..5] : \A i, j \in 1..5 : o[i] = o[j] => i = j}
Reordered(parameters, o) == [i \in 1..Len(parameters) |-> parameters[o[i]]]

\* the items of a dict, whatever their order
Items(parameters) == {parameters[i] : i \in 1..Len(parameters)}

\* C13 - Cache determinism: the digest of a prompt and a parameter dict does
\* not depend on the insertion order of the dict's keys, so calls with the same
\* prompt and the same items always address the same row of the table.
C13_CacheDeterminism ==
    /\ \A w \in LookupCalls \cup StoreCalls :
          \A o \in KeyOrders :
              _get_hash(th[w].prompt, Reordered(th[w].params, o))
                  = _get_hash(th[w].prompt, th[w].params)
    /\ \A h1, h2 \in DOMAIN db :
          (h1[1] = h2[1] /\ Items(h1[2]) = Items(h2[2])) => h1 = h2

C13_Witness ==
    \E w \in LookupCalls :
        /\ th[w].params = Reversed(BuildParams([seed |-> SeedOverride], SeedOverride))
        /\ th[w].result # NoPath
        /\ _get_hash(th[w].prompt, th[w].params)
             = _get_hash(th[w].prompt, BuildParams([seed |-> SeedOverride], SeedOverride))
        /\ Cardinality(DOMAIN db) = 2

\* the digest a get or store call addressed
DigestOf(f) == _get_hash(f.prompt, f.params)

\* C14 - Lookup semantics: get returns a path only if the digest has a row and
\* the row's file is on disk at the lookup, and then it returns the row's path;
\* with the row present but its file missing it returns None and leaves the
\* table as it was (row kept, last_accessed not updated); so it does without a row.
C14_LookupSemantics ==
    \A w \in LookupCalls :
        LET f == th[w]
        IN  /\ f.result # NoPath =>
                  /\ f.lk.row
                  /\ f.lk.file_exists
                  /\ f.result = f.lk.filepath
            /\ (f.lk.row /\ ~f.lk.file_exists) =>
                  /\ f.result = NoPath
                  /\ db = f.pre_db
            /\ ~f.lk.row =>
                  /\ f.result = NoPath
                  /\ db = f.pre_db

C14_Witness ==
    \E w \in LookupCalls :
        /\ th[w].lk.row
        /\ ~th[w].lk.file_exists
        /\ th[w].result = NoPath
        /\ DigestOf(th[w]) \in DOMAIN db
        /\ db[DigestOf(th[w])].last_accessed < th[w].start_time

\* the second a row's file was saved in: the stamp in the file name.  store
\* follows the save at once, so a row whose last_accessed is later was hit then.
SavedAt(row) == row.filepath[3]
HitAt(row) == row.last_accessed > SavedAt(row)

\* a successful get sets the hit row's last_accessed to the time of the call
\* and changes nothing else
HitTouchesOnlyItsRow ==
    \A w \in LookupCalls :
        LET f == th[w]
            h == DigestOf(f)
        IN  f.result # NoPath =>
                /\ DOMAIN db = DOMAIN f.pre_db
                /\ db[h].last_accessed = f.start_time
                /\ db[h].filepath = f.pre_db[h].filepath
                /\ \A k \in DOMAIN db \ {h} : db[k] = f.pre_db[k]

\* C15 - Hit refreshes age: every successful get sets the hit row's
\* last_accessed to the current time and changes no other row, so the age pass
\* of a later sweep removes no row that was hit less than the age limit ago.
C15_HitRefreshesAge ==
    /\ HitTouchesOnlyItsRow
    /\ \A w \in SweepCalls :
          LET f == th[w]
          IN  \A h \in f.aged :
                  HitAt(f.pre_db[h]) =>
                      f.start_time - f.pre_db[h].last_accessed
                          >= AgeLimit(f.days) * DaySeconds

\* C16 - Store is an idempotent upsert: a store leaves exactly one row for its
\* digest, holding the path just stored and the current time, adds a row only
\* if the digest had none, and changes no other row; a lookup of the digest
\* then returns the path just stored, never the path stored before.
C16_StoreIsUpsert ==
    \A w \in StoreCalls :
        LET f == th[w]
            h == DigestOf(f)
        IN  /\ DOMAIN db = DOMAIN f.pre_db \cup {h}
            /\ Cardinality(DOMAIN db)
                 = Cardinality(DOMAIN f.pre_db) + (IF f.lk.row THEN 0 ELSE 1)
            /\ db[h] = [filepath |-> f.saved_path, last_accessed |-> f.start_time]
            /\ \A k \in DOMAIN db \ {h} : db[k] = f.pre_db[k]
            /\ CacheGet(f.prompt, f.params) = f.saved_path

C16_Witness ==
    \E w \in StoreCalls :
        /\ th[w].lk.row
        /\ th[w].lk.file_exists
        /\ th[w].lk.filepath # th[w].saved_path
        /\ db[DigestOf(th[w])].filepath = th[w].saved_path
        /\ Cardinality(DOMAIN db) = 1

\* the age of a row of the table a sweep started on, by the clock the rows are
\* stamped with, and the rows of that table whose file was missing
AgeAt(f, h) == f.start_time - f.pre_db[h].last_accessed
FileLess(f) == {h \in DOMAIN f.pre_db : f.pre_db[h].filepath \notin f.pre_files}

\* C17 - Sweep postcondition: a completed clean_cache has removed exactly the
\* rows that were older than the age limit or whose file was missing, and the
\* files of the aged rows unless their removal failed; every other row is still
\* there with its filepath and last_accessed unchanged and its file untouched.
\* (A row whose age is exactly the limit may go either way.)
C17_SweepPostcondition ==
    \A w \in SweepCalls :
        LET f == th[w]
            limit == AgeLimit(f.days) * DaySeconds
        IN  \A h \in DOMAIN f.pre_db :
                /\ (AgeAt(f, h) > limit \/ h \in FileLess(f)) => h \notin DOMAIN db
                /\ h \notin DOMAIN db => (AgeAt(f, h) >= limit \/ h \in FileLess(f))
                /\ (AgeAt(f, h) > limit /\ f.pre_db[h].filepath \notin f.stuck)
                      => f.pre_db[h].filepath \notin files
                /\ h \in DOMAIN db =>
                      /\ db[h] = f.pre_db[h]
                      /\ f.pre_db[h].filepath \in files

\* the rows a completed sweep has removed
Removed(f) == DOMAIN f.pre_db \ DOMAIN db

\* C18 (as stated) - Sweep result: clean_cache returns to its caller the number
\* of entries it removed.
C18_ReturnsRemovedCount ==
    \A w \in SweepCalls : th[w].returned = <<Cardinality(Removed(th[w]))>>

\* C18 (amended) - clean_cache returns nothing to its caller; the number it
\* counts and logs is the number of entries it removed, each removed entry
\* counted exactly once across the two passes.
C18_CountsRemovedOnce ==
    \A w \in SweepCalls :
        LET f == th[w]
        IN  /\ f.returned = <<>>
            /\ f.aged \subseteq Removed(f)
            /\ f.deleted_count = Cardinality(f.aged) + Cardinality(Removed(f) \ f.aged)
            /\ f.deleted_count = Cardinality(Removed(f))

C18_Witness ==
    \E w \in SweepCalls :
        /\ th[w].aged # {}
        /\ Removed(th[w]) \ th[w].aged # {}
        /\ th[w].deleted_count = 2

\* the completed sweeps that directly follow another sweep with the same age
\* limit and the same reading of the clock
RepeatedSweeps ==
    {w \in SweepCalls : /\ th[w].again
                        /\ th[w].now = th[w].prev_now
                        /\ AgeLimit(th[w].days) = AgeLimit(th[w].prev_days)}

\* C19 - Sweep idempotence: a clean_cache that directly follows another one with
\* the same age limit, with no store, hit, file change or clock advance in
\* between, removes no entry and no file, also when file removals failed in the
\* first run.
C19_SweepIdempotence ==
    \A w \in RepeatedSweeps :
        /\ th[w].deleted_count = 0
        /\ th[w].aged = {}
        /\ db = th[w].pre_db
        /\ files = th[w].pre_files

C19_Witness ==
    \E w \in RepeatedSweeps :
        /\ th[w].prev_stuck # {}
        /\ th[w].prev_deleted_count > 0
        /\ th[w].prev_stuck \subseteq files
        /\ th[w].deleted_count = 0

\* the completed sweeps in which os.remove failed on a file that existed, and
\* the rows of the first SELECT of a sweep, from its reading of the clock
SweepsWithFailure == {w \in SweepCalls : th[w].stuck \cap th[w].pre_files # {}}
SelectedByAge(f) ==
    {h \in DOMAIN f.pre_db :
        f.pre_db[h].last_accessed < f.now - AgeLimit(f.days) * DaySeconds}

\* C20 - Best-effort file deletion: when os.remove fails on the file of an aged
\* entry, the sweep still deletes that entry's row, still deletes the file and
\* the row of every other aged entry, and still runs the whole missing-file
\* pass; the file whose removal failed stays on disk.
C20_BestEffortFileDeletion ==
    \A w \in SweepsWithFailure :
        LET f == th[w]
        IN  /\ SelectedByAge(f) \cap DOMAIN db = {}
            /\ \A h \in SelectedByAge(f) :
                  f.pre_db[h].filepath \in files
                     <=> f.pre_db[h].filepath \in f.stuck \cap f.pre_files
            /\ \A h \in DOMAIN db : db[h].filepath \in files
            /\ FileLess(f) \cap DOMAIN db = {}
            /\ f.deleted_count = Cardinality(Removed(f))

C20_Witness ==
    \E w \in SweepsWithFailure :
        LET f == th[w]
        IN  /\ \E h \in SelectedByAge(f) : f.pre_db[h].filepath \in f.stuck
            /\ FileLess(f) \ SelectedByAge(f) # {}
            /\ Removed(f) = DOMAIN f.pre_db
            /\ f.stuck \subseteq files

\* the clean_cache calls that run statement by statement, and the get calls
\* that have returned a path
Sweeps == {w \in Workers : th[w].op = "clean_cache"}
Hits == {w \in Workers : th[w].op = "get" /\ th[w].pc = "done" /\ th[w].result # NoPath}

\* C21 - Sweep is safe under concurrency: in every interleaving of clean_cache
\* with get and store of another thread, every row clean_cache deletes has, at
\* its DELETE, a last_accessed older than the cutoff or no file on disk (so an
\* entry stored or hit after the sweep fetched its candidates survives it), and
\* the file of a path that get returns is on disk when get returns.
C21_SweepSafeUnderConcurrency ==
    /\ \A w \in Sweeps :
          \A v \in th[w].victims :
              \/ v.last_accessed < th[w].now - AgeLimit(th[w].days) * DaySeconds
              \/ ~v.had_file
    /\ \A w \in Hits : ~th[w].gone

\* two workers whose generate_image calls had the same key, both missed the
\* (enabled) cache and both succeeded, neither having returned to the pool yet
RacedPairs ==
    {p \in GenCalls \X GenCalls :
        /\ cacheOn
        /\ p[1] # p[2]
        /\ DigestOf(th[p[1]]) = DigestOf(th[p[2]])
        /\ \A w \in {p[1], p[2]} :
              /\ th[w].pc = "done"
              /\ th[w].result # NoPath
              /\ ~LookupHadEntry(th[w])}

\* worker w executes self.cache.store in this step
StoreStepOf(w) == cacheOn /\ th[w].pc = "g_store" /\ th'[w].pc = "g_cnt"

\* C22 - Concurrent same-key generation: two concurrent generate_image calls
\* with the same prompt and parameters that both miss and both succeed each
\* make a request and each write the cache; every store sets the key's entry to
\* the path it was given and nothing else changes it, so afterwards the one
\* entry of the key holds the path of the store that ran last.
C22_SecondWriteWins ==
    /\ [](\A p \in RacedPairs :
             /\ \A w \in {p[1], p[2]} :
                   th[w].mr_calls = 1 /\ th[w].saves = 1 /\ th[w].stores = 1
             /\ DigestOf(th[p[1]]) \in DOMAIN db
             /\ db[DigestOf(th[p[1]])].filepath \in {th[p[1]].saved_path, th[p[2]].saved_path})
    /\ [][\A w \in Workers :
             StoreStepOf(w) =>
                 /\ DigestOf(th[w]) \in DOMAIN db'
                 /\ db'[DigestOf(th[w])].filepath = th[w].saved_path]_vars
    /\ [][\A h \in DOMAIN db :
             /\ h \in DOMAIN db'
             /\ db'[h].filepath # db[h].filepath =>
                   \E w \in Workers : StoreStepOf(w) /\ DigestOf(th[w]) = h]_vars

C22_Witness ==
    \E p \in RacedPairs :
        /\ th[p[1]].saved_path # th[p[2]].saved_path
        /\ db[DigestOf(th[p[1]])].filepath = th[p[2]].saved_path
        /\ th[p[1]].saved_path \in files

\* the run_diagnostics calls that run or have just returned, and the requests
\* a call has issued, in order
DiagCalls == {w \in Workers : th[w].op = "diagnostics"}
RequestsOf(f) == [i \in 1..Len(f.log) |-> f.log[i][2]]

\* C23 - Diagnostics are read-only and single-shot: whatever the services
\* answer, run_diagnostics leaves the cache table, the files and the statistics
\* as they were, issues at most one models, one account-id and one
\* account-details request, in that order, and the account-details request only
\* with the account id the account-id reply resolved.
C23_DiagnosticsReadOnlySingleShot ==
    \A w \in DiagCalls :
        LET f == th[w]
            reqs == RequestsOf(f)
        IN  /\ stats = f.pre_stats
            /\ db = f.pre_db
            /\ files = f.pre_files
            /\ \A i, j \in 1..Len(reqs) : reqs[i] = reqs[j] => i = j
            /\ \E n \in 0..3 : reqs = SubSeq(<<"models", "getid", "details">>, 1, n)
            /\ (\E i \in 1..Len(reqs) : reqs[i] = "details") => f.account_id.t = "str"
            /\ ~gofileOk => Len(reqs) <= 1

C23_Witness ==
    \E w \in DiagCalls :
        /\ th[w].pc = "done"
        /\ RequestsOf(th[w]) = <<"models", "getid", "details">>
        /\ th[w].exc = "HTTPError"
        /\ db # <<>>

\* C24 - Diagnostics never raise: whatever the models endpoint and the
\* file-host account endpoints answer (transport failure, non-2xx status,
\* non-JSON body, JSON with missing or null fields), no exception leaves
\* run_diagnostics.
C24_DiagnosticsNeverRaise ==
    \A w \in DiagCalls : th[w].raised = "none"

\* the requests among the events of a _make_request call
RequestsIn(log) == {i \in 1..Len(log) : IsRequest(log[i])}

\* C25 - Error classification of the retry client: the retries-exhausted error
\* (the ConnectionError raised after the loop) leaves _make_request only when
\* all max_retries attempts were made and failed with a 5xx response or a
\* transport failure; an abort on a 4xx response does not surface as that error.
C25_ExhaustedOnlyAfterAllAttempts ==
    \A w \in GenCalls :
        LET f == th[w]
        IN  RaisedConnectionError(f) =>
                /\ Cardinality(RequestsIn(f.log)) = config.max_retries
                /\ AllRetryable(f.log)

\* _make_request has just returned a response to generate_image
ReturnedResponse(f) == f.pc = "g_save"

\* C26 - Retry budget and early success: a _make_request call never issues
\* more than max_retries requests; every attempt that failed with a 5xx
\* response or a transport failure advanced the attempt counter by one; and
\* when it returns a response at its k-th request, the k-1 requests before it
\* all failed that way, each followed by one sleep, and the returned response
\* is the last event: exactly k requests and k-1 sleeps.
C26_RetryBudgetEarlySuccess ==
    \A w \in GenCalls :
        LET f == th[w]
            k == Cardinality(RequestsIn(f.log))
        IN  /\ k <= config.max_retries
            /\ f.pc = "mr_req" => f.attempt = k
            /\ f.pc = "mr_backoff" => f.attempt + 1 = k /\ AllRetryable(f.log)
            /\ ReturnedResponse(f) =>
                  /\ k >= 1
                  /\ f.attempt = k - 1
                  /\ Len(f.log) = 2 * k - 1
                  /\ SubSeq(f.log, 1, 2 * k - 2) = SubSeq(BackoffSchedule(k), 1, 2 * k - 2)
                  /\ IsRequest(f.log[Len(f.log)])
                  /\ f.log[Len(f.log)][2] \notin {"5xx-or-transport", "4xx"}

C26_Witness ==
    \E w \in GenCalls :
        /\ ReturnedResponse(th[w])
        /\ config.max_retries = 3
        /\ th[w].log = << <<"request", "5xx-or-transport">>, <<"sleep", 1>>,
                          <<"request", "5xx-or-transport">>, <<"sleep", 2>>,
                          <<"request", "2xx-image">> >>

\* the generate_image calls that have saved a file of their own
Generations == {w \in GenCalls : th[w].saves = 1}

\* C27 - Output filename uniqueness: two distinct generate_image calls that
\* each saved a result, one after the other or concurrently in a batch, saved
\* to different paths, and no two cache entries point to the same file.
C27_OutputFilenameUniqueness ==
    /\ \A w1, w2 \in Generations :
          w1 # w2 => th[w1].saved_path # th[w2].saved_path
    /\ \A h1, h2 \in DOMAIN db :
          h1 # h2 => db[h1].filepath # db[h2].filepath

\* C28 - Cache is populated only on success and under the lookup key:
\* generate_image stores at most once, only after its one request succeeded
\* and its file was saved; the stored row holds the path that call saved and is
\* keyed by the digest of the original prompt and of the parameter set of the
\* lookup, so the same lookup now returns that path; a call that stored
\* nothing after a miss leaves the table as it was.
C28_StoreOnlyOnSuccessUnderLookupKey ==
    \A w \in GenCalls :
        LET f == th[w]
            h == _get_hash(f.prompt, f.params)
        IN  /\ f.stores <= 1
            /\ f.stores = 1 =>
                  /\ cacheOn
                  /\ ~LookupHadEntry(f)
                  /\ f.mr_calls = 1 /\ f.saves = 1 /\ f.exc = "none"
                  /\ f.saved_path \in files
                  /\ DOMAIN db = DOMAIN f.pre_db \cup {h}
                  /\ db[h].filepath = f.saved_path
                  /\ \A k \in DOMAIN db \ {h} : db[k] = f.pre_db[k]
                  /\ CacheGet(f.prompt, f.params) = f.saved_path
            /\ (f.stores = 0 /\ ~LookupHadEntry(f)) => db = f.pre_db

C28_Witness ==
    \E w \in GenCalls :
        /\ th[w].pc = "done"
        /\ th[w].stores = 1
        /\ th[w].translated # th[w].prompt
        /\ th[w].result = th[w].saved_path
        /\ db[_get_hash(th[w].prompt, th[w].params)].filepath = th[w].saved_path

\* the edit_image calls that are inside the attempt of a model
InAttempt == {w \in EditCalls : th[w].pc \in {"mr_req", "mr_backoff", "e_save", "e_except"}}

\* C29 - Fallback continuation and sequencing: in edit_image no failure of a
\* model's attempt (retries exhausted or 4xx abort: ConnectionError; wrong
\* content type: ValueError; failed save: IOError) leaves the call or ends it
\* while untried models remain: the call gives up only after every model of the
\* list failed.  While the attempt of the i-th model runs, the i-1 attempts
\* before it have each ended in the except clause, and the request loop of the
\* model starts afresh.
C29_FallbackContinuation ==
    \A w \in EditCalls :
        LET f == th[w]
        IN  /\ f.raised = "none"
            /\ Len(f.caught) = f.nfailed
            /\ \A i \in 1..Len(f.caught) : f.caught[i] \in {"ConnectionError", "ValueError", "IOError"}
            /\ (f.tr_calls > 0 /\ f.result = NoPath /\ f.pc \in {"e_fail", "e_fail_w", "done"})
                  => f.tried = Names(f.methods) /\ f.nfailed = Len(f.methods)
            /\ w \in InAttempt =>
                  /\ f.idx <= Len(f.methods)
                  /\ f.tried = SubSeq(Names(f.methods), 1, f.idx)
                  /\ f.mr_calls = f.idx
                  /\ f.nfailed = f.idx - 1
                  /\ Cardinality(RequestsIn(f.log)) <= config.max_retries
            /\ (f.pc = "mr_req" /\ f.attempt = 0) => f.log = <<>>

C29_Witness ==
    \E w \in InAttempt :
        /\ th[w].pc = "mr_req"
        /\ th[w].idx = 3
        /\ th[w].caught = <<"IOError", "ValueError">>
        /\ th[w].log = <<>>

\* the calls whose translation step has run
Translated == {w \in GenCalls \cup EditCalls : th[w].tr_calls > 0}

\* C30 - Translation never fails a generation: however the translation service
\* fails, generate_image and edit_image go on to the image request with the
\* untranslated prompt text, no exception leaving the call, and no text of
\* more than 490 characters is ever sent to the translation service.
C30_TranslationNeverFails ==
    \A w \in Translated :
        LET f == th[w]
        IN  /\ f.raised = "none"
            /\ \A i \in 1..Len(f.sent) : Len(f.sent[i]) <= TranslateLimit
            /\ f.tr_outcome \in {"failed", "none-returned"} =>
                  /\ f.translated = f.prompt
                  /\ (f.pc = "e_loop" /\ f.idx = 1) \/ f.mr_calls >= 1

\* the last event of the log is a request answered 2xx with no image content type
EndsNotImage(log) ==
    Len(log) > 0 /\ log[Len(log)] = <<"request", "2xx-not-image">>

\* C31 - Validation failure is not retried: a request of _make_request that is
\* answered 2xx with a non-image content type is the last event of that call,
\* whatever retry budget remains: the ValueError is raised from that iteration
\* (the attempt counter is not advanced, the loop is not re-entered), and the
\* next step of the call adds neither a request nor a sleep.
C31_ValidationFailureNotRetried ==
    /\ [](\A w \in GenCalls :
            LET f == th[w]
            IN  \A i \in 1..Len(f.log) :
                    f.log[i] = <<"request", "2xx-not-image">> =>
                        /\ i = Len(f.log)
                        /\ f.pc = "g_err"
                        /\ f.exc = "ValueError"
                        /\ f.attempt = Cardinality(RequestsIn(f.log)) - 1)
    /\ [][\A w \in Workers :
            (th[w].op = "generate" /\ EndsNotImage(th[w].log)) =>
                /\ th'[w].log \in {th[w].log, <<>>}
                /\ th'[w].mr_calls = th[w].mr_calls
                /\ th'[w].pc \notin {"mr_req", "mr_backoff"}]_vars

C31_Witness ==
    \E w \in GenCalls :
        /\ config.max_retries = 3
        /\ th[w].log = << <<"request", "5xx-or-transport">>, <<"sleep", 1>>,
                          <<"request", "2xx-not-image">> >>
        /\ th[w].pc = "g_err"
        /\ th[w].exc = "ValueError"

\* every generate_image call started so far has returned
AllReturned == \A w \in Workers : th[w].pc = "idle"

\* C32 - Exact accounting of calls: once every generate_image call started has
\* returned, the calls of a batch's worker pool included, images_generated +
\* cache_hits + errors equals the number of calls: each outcome was counted
\* once and no increment was lost.
C32_ExactAccounting ==
    AllReturned => stats.images_generated + stats.cache_hits + stats.errors = calls

StaleLookups ==
    {w \in GenCalls : cacheOn /\ th[w].lk.row /\ ~th[w].lk.file_exists}

C35_ZeroRetryBudget ==
    \A w \in GenCalls :
        LET f == th[w]
        IN  config.max_retries <= 0 =>
                /\ f.log = <<>>
                /\ f.attempt = 0
                /\ f.pc # "mr_backoff"
                /\ f.saves = 0 /\ f.stores = 0
                /\ f.raised = "none"
                /\ (f.mr_calls = 1 /\ f.pc # "mr_req") =>
                      /\ f.exc = "ConnectionError"
                      /\ f.pc \in {"g_err", "g_err_w", "done"}
                /\ (f.mr_calls = 1 /\ f.pc = "done") =>
                      /\ f.result = NoPath
                      /\ stats.errors = f.pre_stats.errors + 1
                      /\ stats.images_generated = f.pre_stats.images_generated
                      /\ stats.cache_hits = f.pre_stats.cache_hits
                      /\ db = f.pre_db

C35_Witness ==
    \E w \in GenCalls :
        /\ config.max_retries < 0
        /\ th[w].pc = "done"
        /\ th[w].mr_calls = 1
        /\ th[w].log = <<>>
        /\ th[w].exc = "ConnectionError"
        /\ th[w].result = NoPath
        /\ stats.errors = 2

\* C36 - Sweep age limit selection: a completed clean_cache(days) has worked
\* with the age limit days when days > 0 and max_age_days otherwise (the
\* 'clean cache' tool action passes 0, the constructor max_age_days): every
\* entry older than that limit is gone, and no entry younger than it whose
\* file was on disk has been removed or changed, nor has its file.
C36_SweepAgeLimitSelection ==
    \A w \in SweepCalls :
        LET f == th[w]
            limit == (IF f.days > 0 THEN f.days ELSE MaxAgeDays) * DaySeconds
        IN  \A h \in DOMAIN f.pre_db :
                /\ AgeAt(f, h) > limit => h \notin DOMAIN db
                /\ (AgeAt(f, h) < limit /\ h \notin FileLess(f)) =>
                      /\ h \in DOMAIN db
                      /\ db[h] = f.pre_db[h]
                      /\ f.pre_db[h].filepath \in files

====
